---- MODULE Spec2Model ----
(***************************************************************************)
(* Verification model of the lace-lang toolchain.                          *)
(*                                                                         *)
(* Three generations of the compiler/VM pair live in the repository and    *)
(* each is modelled as its own state machine over its own variables:       *)
(*                                                                         *)
(*   SpecHlvm  codegen::compile -> hir::from_hir -> HighLevelVirtualMachine *)
(*   SpecLace  lacec Compiler   -> lace VirtualMachine                      *)
(*   SpecRun   vm::run (the recursive CodeObject interpreter)               *)
(*   SpecOperate  the arithmetic dispatch `operate` as a pure function      *)
(*                                                                         *)
(* Addresses and indices are 0-based as in the source; TLA+ sequences are  *)
(* 1-based, so code[ip + 1] is the instruction at address ip.              *)
(***************************************************************************)
EXTENDS Integers, Sequences, FiniteSets, TLC

VARIABLES
    hl_prog,    \* the source program handed to codegen / from_hir (input)
    hl_act,     \* activations of HighLevelVirtualMachine::execute: <<[code, ip]>>
    hl_stack,   \* HighLevelVirtualMachine.stack
    hl_calls,   \* HighLevelVirtualMachine.call_stack (locals of each frame)
    hl_status,  \* "running" | "ok" | "err" | "panic" | "exit"
    hl_result,  \* value returned by the outermost execute
    hl_out,     \* values printed by hlvm_print, in order
    hl_trace,   \* instruction boundaries passed: <<[lvl, ip, sp, op]>>
    lc_prog,    \* the source program handed to lacec (input)
    lc_checks,  \* whether the lace binary was built with integer overflow checks
    lc_constants, \* VirtualMachine.constants
    lc_act,     \* activations of VirtualMachine::run: <<[code, ip]>>
    lc_stack,   \* VirtualMachine.stack
    lc_calls,   \* VirtualMachine.call_stack (locals of each frame)
    lc_status,  \* "running" | "ok" | "runtime_error" | "panic" | "exit"
    lc_result,  \* value returned by the outermost run
    lc_out,     \* argument lists printed by writeln!, in order
    lc_trace,   \* instruction boundaries passed: <<[lvl, ip, sp, ins, len, stack, frames]>>
    rn_prog,    \* the code objects handed to vm::run (input)
    rn_act,     \* invocations of vm::run: <<[function, pc, stack, variables]>>
    rn_status,  \* "running" | "ok" | "raise" | "panic"
    rn_out,     \* argument lists printed by the writeln macro, in order
    rn_maps,    \* every args_map built for a callee, in order
    rn_trace,   \* opcodes executed: <<[lvl, pc, opcode]>>
    op_a,       \* left operand of operate (input)
    op_b,       \* right operand of operate (input)
    op_code,    \* opcode of operate (input)
    op_res,     \* outcome of operate, kind "none" before the call
    cp_prog,    \* the program whose AST two compilers are given (input)
    cp_a,       \* first Compiler and its chunk: [source, ok, constants, chunk]
    cp_b,       \* second Compiler and its chunk
    pl_pool,    \* a constant pool (Constants.0 / CodeObject.constants)
    pl_log      \* the add_constant calls made on it: <<[value, index, len]>>

hlvars == <<hl_prog, hl_act, hl_stack, hl_calls, hl_status, hl_result, hl_out, hl_trace>>

lcvars == <<lc_prog, lc_checks, lc_constants, lc_act, lc_stack, lc_calls, lc_status, lc_result,
            lc_out, lc_trace>>

rnvars == <<rn_prog, rn_act, rn_status, rn_out, rn_maps, rn_trace>>

opvars == <<op_a, op_b, op_code, op_res>>

cpvars == <<cp_prog, cp_a, cp_b>>

plvars == <<pl_pool, pl_log>>

vars == <<hlvars, lcvars, rnvars, opvars, cpvars, plvars>>

(***************************************************************************)
(* Bounds                                                                  *)
(***************************************************************************)
MaxSteps == 40      \* instructions executed per run before the model stops
MaxElseIf == 2      \* elseif clauses in a generated chain
MaxIter == 3        \* initial counter value of a generated counting loop
MaxDepth == 3       \* functions in a generated chain of nested calls
MaxCalls == 5       \* add_constant calls made on one pool

(***************************************************************************)
(* Generic helpers                                                         *)
(***************************************************************************)
EmptyMap == [n \in {} |-> 0]

MapInsert(m, name, val) ==
    [n \in (DOMAIN m) \cup {name} |-> IF n = name THEN val ELSE m[n]]

Last(s) == s[Len(s)]

Front(s) == SubSeq(s, 1, Len(s) - 1)

DropLast(s, k) == SubSeq(s, 1, Len(s) - k)

RECURSIVE Reverse(_)
Reverse(s) == IF Len(s) = 0 THEN <<>> ELSE Append(Reverse(Tail(s)), Head(s))

RECURSIVE Flatten(_)
Flatten(ss) == IF Len(ss) = 0 THEN <<>> ELSE Head(ss) \o Flatten(Tail(ss))

(***************************************************************************)
(* HLVM values (hlvm/src/lir.rs).  Number is an f64 in the source; the     *)
(* model uses the integers, which f64 represents exactly in this range.    *)
(***************************************************************************)
HNum(n) == [t |-> "Number", v |-> n]

HBool(b) == [t |-> "Bool", v |-> b]

HStr(s) == [t |-> "String", v |-> s]

HFun(code, args) == [t |-> "Function", v |-> [code |-> code, args |-> args]]

is_truthy(val) ==
    CASE val.t = "Number" -> val.v # 0
      [] val.t = "String" -> val.v # ""
      [] val.t = "Bool" -> val.v
      [] OTHER -> TRUE

(***************************************************************************)
(* HIR / LIR instructions (hlvm/src/hir.rs, hlvm/src/lir.rs)               *)
(***************************************************************************)
Ins(op) == [op |-> op]

Push(val) == [op |-> "Push", val |-> val]

Jump(addr) == [op |-> "Jump", addr |-> addr]

JumpIf(addr) == [op |-> "JumpIf", addr |-> addr]

CallPrimitive(index, args) == [op |-> "CallPrimitive", index |-> index, args |-> args]

Named(op, name) == [op |-> op, name |-> name]

IfStatement(ontrue, onelseif, onfalse) ==
    [op |-> "IfStatement", ontrue |-> ontrue, onelseif |-> onelseif, onfalse |-> onfalse]

WhileStatement(condition, body) ==
    [op |-> "WhileStatement", condition |-> condition, body |-> body]

(***************************************************************************)
(* hir::from_hir                                                           *)
(***************************************************************************)
\* Target written into the guard jump of the patch loop: `index` is the loop's
\* running counter, block_offsets the recorded block ends (0-based Vec).
NextTarget(index, block_offsets, end_offset) ==
    IF index + 1 = Len(block_offsets)
    THEN [target |-> end_offset, index |-> index]
    ELSE [target |-> block_offsets[(index + 1) + 1], index |-> index + 1]

RECURSIVE PatchJumps(_, _, _, _, _)
PatchJumps(jump_offsets, index, block_offsets, end_offset, instructions) ==
    IF Len(jump_offsets) = 0 THEN instructions
    ELSE LET j == Head(jump_offsets)
             nt == NextTarget(index, block_offsets, end_offset)
         IN IF j.ty = "Next"
            THEN PatchJumps(Tail(jump_offsets), nt.index, block_offsets, end_offset,
                            [instructions EXCEPT ![j.off + 1] = JumpIf(nt.target)])
            ELSE PatchJumps(Tail(jump_offsets), index, block_offsets, end_offset,
                            [instructions EXCEPT ![j.off + 1] = Jump(end_offset)])

RECURSIVE from_hir(_)
RECURSIVE LowerElseIfs(_, _)

\* Code of a nested block as it is spliced into the enclosing vector.
AppendBlock(instructions, block) == instructions \o from_hir(block)

\* One candidate: [condition], Not, JumpIf(0), body, Jump(0); records both
\* placeholders and the offset just after the block.
LowerCandidate(st, condition, code) ==
    LET i1 == AppendBlock(st.ins, condition) \o <<Ins("Not"), JumpIf(0)>>
        j1 == Append(st.jo, [off |-> Len(i1) - 1, ty |-> "Next"])
        i2 == AppendBlock(i1, code) \o <<Jump(0)>>
        j2 == Append(j1, [off |-> Len(i2) - 1, ty |-> "End"])
    IN [ins |-> i2, jo |-> j2, bo |-> Append(st.bo, Len(i2))]

LowerElseIfs(st, elseifs) ==
    IF Len(elseifs) = 0 THEN st
    ELSE LowerElseIfs(LowerCandidate(st, Head(elseifs)[1], Head(elseifs)[2]), Tail(elseifs))

LowerIf(instructions, h) ==
    LET first == LowerCandidate([ins |-> instructions, jo |-> <<>>, bo |-> <<>>],
                                <<>>, h.ontrue)
        st == LowerElseIfs(first, h.onelseif)
        withelse == AppendBlock(st.ins, h.onfalse)
        end_offset == Len(withelse)
    IN PatchJumps(st.jo, 0, st.bo, end_offset, withelse)

LowerWhile(instructions, h) ==
    LET start_offset == Len(instructions)
        i1 == AppendBlock(instructions, h.condition) \o <<Ins("Not")>>
        jmpif_offset == Len(i1)
        i2 == AppendBlock(Append(i1, JumpIf(0)), h.body) \o <<Jump(start_offset)>>
        end_offset == Len(i2)
    IN [i2 EXCEPT ![jmpif_offset + 1] = JumpIf(end_offset)]

LowerInstruction(instructions, h) ==
    CASE h.op = "IfStatement" -> LowerIf(instructions, h)
      [] h.op = "WhileStatement" -> LowerWhile(instructions, h)
      [] OTHER -> Append(instructions, h)

RECURSIVE FromHirLoop(_, _)
FromHirLoop(source, instructions) ==
    IF Len(source) = 0 THEN instructions
    ELSE FromHirLoop(Tail(source), LowerInstruction(instructions, Head(source)))

from_hir(source) == FromHirLoop(source, <<>>)

(***************************************************************************)
(* compiler/src/codegen.rs: AST -> HIR                                     *)
(***************************************************************************)
NumberValue(number) == [node |-> "NumberValue", val |-> number]

BoolValue(bool) == [node |-> "BoolValue", val |-> bool]

IdentifierValue(iden) == [node |-> "IdentifierValue", val |-> iden]

FunctionCall(function, arguments) ==
    [node |-> "FunctionCall", function |-> function, arguments |-> arguments]

PrimitiveFunctionCall(index, arguments) ==
    [node |-> "PrimitiveFunctionCall", index |-> index, arguments |-> arguments]

Binary(left, right, op) == [node |-> "Binary", left |-> left, right |-> right, op |-> op]

VariableAssignment(name, value) == [node |-> "VariableAssignment", name |-> name, value |-> value]

If(ontrue, onelseif, onfalse) ==
    [node |-> "If", ontrue |-> ontrue, onelseif |-> onelseif, onfalse |-> onfalse]

WhileNode(condition, body) == [node |-> "WhileStatement", condition |-> condition, body |-> body]

Return(value) == [node |-> "Return", value |-> value]

FunctionDecleration(name, body, params) ==
    [node |-> "FunctionDecleration", name |-> name, body |-> body, params |-> params]

op_token_to_instruction(op) ==
    CASE op = "OpAdd" -> Ins("Add")
      [] op = "OpSub" -> Ins("Subtract")
      [] op = "OpMul" -> Ins("Multiply")
      [] op = "OpDiv" -> Ins("Divide")
      [] op = "OpEq" -> Ins("Equal")
      [] op = "OpBangEq" -> Ins("NotEqual")
      [] op = "OpLess" -> Ins("LessThan")
      [] op = "OpLessEq" -> Ins("LessThanOrEqual")
      [] op = "OpMore" -> Ins("GreaterThan")
      [] op = "OpMoreEq" -> Ins("GreaterThanOrEqual")

\* Variant without the reversal: the arguments are lowered as written.
ArgumentOrderWritten(arguments) == arguments

\* Order in which codegen lowers the arguments of a call: `arguments.reverse()`.
ArgumentOrder(arguments) == Reverse(arguments)

RECURSIVE compile_value(_)
RECURSIVE CompileValues(_)
CompileValues(values) ==
    IF Len(values) = 0 THEN <<>>
    ELSE compile_value(Head(values)) \o CompileValues(Tail(values))

compile_value(value) ==
    CASE value.node \in {"NumberValue", "BoolValue", "StringValue"} ->
            <<Push(IF value.node = "NumberValue" THEN HNum(value.val)
                   ELSE IF value.node = "BoolValue" THEN HBool(value.val)
                   ELSE HStr(value.val))>>
      [] value.node = "IdentifierValue" -> <<Named("Get", value.val)>>
      [] value.node = "FunctionCall" ->
            CompileValues(ArgumentOrder(value.arguments))
                \o <<Named("Get", value.function), Ins("Call")>>
      [] value.node = "PrimitiveFunctionCall" ->
            CompileValues(ArgumentOrder(value.arguments))
                \o <<CallPrimitive(value.index, Len(value.arguments))>>
      [] value.node = "Binary" ->
            compile_value(value.left) \o compile_value(value.right)
                \o <<op_token_to_instruction(value.op)>>

RECURSIVE compile(_)
RECURSIVE CompileElseIfs(_)
CompileElseIfs(onelseif) ==
    IF Len(onelseif) = 0 THEN <<>>
    ELSE <<<<compile_value(Head(onelseif)[1]), compile(Head(onelseif)[2])>>>>
            \o CompileElseIfs(Tail(onelseif))

CompileNode(n) ==
    CASE n.node \in {"VariableDecleration", "VariableAssignment"} ->
            Append(compile_value(n.value), Named("SetLocal", n.name))
      [] n.node = "If" ->
            Append(compile_value(n.ontrue[1]),
                   IfStatement(compile(n.ontrue[2]), CompileElseIfs(n.onelseif),
                               compile(n.onfalse)))
      [] n.node = "WhileStatement" ->
            <<WhileStatement(compile_value(n.condition), compile(n.body))>>
      [] n.node = "Return" -> Append(compile_value(n.value), Ins("ReturnValue"))
      [] n.node = "FunctionDecleration" ->
            <<Push(HFun(from_hir(compile(n.body)), n.params)), Named("SetLocal", n.name)>>
      [] OTHER -> compile_value(n)

compile(ast) ==
    IF Len(ast) = 0 THEN <<>> ELSE CompileNode(Head(ast)) \o compile(Tail(ast))

(***************************************************************************)
(* Programs run on the HLVM.  A program is described by its parameters;    *)
(* HlHir builds the HIR from them, through codegen or directly.            *)
(***************************************************************************)
BodyVars == <<"b0", "b1", "b2", "b3", "b4", "b5">>

\* Body of candidate i (0-based): a stack-neutral marker assignment, or a
\* primitive call followed by a return.
ChainBody(style, i) ==
    IF style = "mark"
    THEN <<VariableAssignment(BodyVars[i + 1], NumberValue(i + 1))>>
    ELSE <<PrimitiveFunctionCall(0, <<NumberValue(i + 1)>>), Return(NumberValue(i + 1))>>

RECURSIVE ChainElseIfs(_, _, _)
ChainElseIfs(conds, style, i) ==
    IF i > Len(conds) THEN <<>>
    ELSE <<<<BoolValue(conds[i]), ChainBody(style, i - 1)>>>> \o ChainElseIfs(conds, style, i + 1)

\* if c1 {B0} else if c2 {B1} ... [else {Bn}]
ChainNode(conds, haselse, style) ==
    If(<<BoolValue(conds[1]), ChainBody(style, 0)>>,
       ChainElseIfs(conds, style, 2),
       IF haselse THEN ChainBody(style, Len(conds)) ELSE <<>>)

PreNodes(pre) == IF pre = 0 THEN <<>> ELSE <<VariableAssignment("p", NumberValue(7))>>

PostNodes == <<VariableAssignment("z", NumberValue(9))>>

\* n = k; c = 0; while n > 0 { c = c + 1; n = n - 1 }   (HIR, locals by GetLocal)
CountingLoopHir(k) ==
    <<Push(HNum(k)), Named("SetLocal", "n"), Push(HNum(0)), Named("SetLocal", "c"),
      WhileStatement(<<Named("GetLocal", "n"), Push(HNum(0)), Ins("GreaterThan")>>,
                     <<Named("GetLocal", "c"), Push(HNum(1)), Ins("Add"), Named("SetLocal", "c"),
                       Named("GetLocal", "n"), Push(HNum(1)), Ins("Subtract"),
                       Named("SetLocal", "n")>>)>>

\* while c { b0 = 1 }  or  while c { print(1) }
ConstWhileNode(c, style) ==
    WhileNode(BoolValue(c),
              IF style = "mark" THEN ChainBody("mark", 0)
              ELSE <<PrimitiveFunctionCall(0, <<NumberValue(1)>>)>>)

ParamNames == <<"p1", "p2", "p3">>

ArgValues == <<11, 12, 13>>

RECURSIVE NumberNodes(_)
NumberNodes(values) ==
    IF Len(values) = 0 THEN <<>> ELSE <<NumberValue(Head(values))>> \o NumberNodes(Tail(values))

\* fn f(p1..pn) { return pj }  return f(11, .., 1n)
CallNodes(n, j) ==
    <<FunctionDecleration("f", <<Return(IdentifierValue(ParamNames[j]))>>, SubSeq(ParamNames, 1, n)),
      Return(FunctionCall("f", NumberNodes(SubSeq(ArgValues, 1, n))))>>

\* One failing instruction, by the kind of failure:
\*   "getlocal"   GetLocal of a name the frame does not bind
\*   "pop"        SetLocal with an empty operand stack
\*   "operand"    "a" - 1
\*   "primitive"  CallPrimitive with an index other than 0 and 1
\*   "call"       Call of the number 1
FailingCode(failure) ==
    CASE failure = "getlocal" -> <<Named("GetLocal", "q")>>
      [] failure = "pop" -> <<Named("SetLocal", "q")>>
      [] failure = "operand" -> <<Push(HStr("a")), Push(HNum(1)), Ins("Subtract")>>
      [] failure = "primitive" -> <<Push(HNum(1)), CallPrimitive(7, 1)>>
      [] failure = "call" -> <<Push(HNum(1)), Ins("Call")>>

\* the failing instruction at the top level, or inside a function (of a
\* function, ..) that the top level calls; z = 9 follows in every caller
RECURSIVE FailingHir(_, _)
FailingHir(failure, depth) ==
    IF depth = 0 THEN FailingCode(failure) \o compile(PostNodes)
    ELSE <<Push(HFun(from_hir(FailingHir(failure, depth - 1)), <<>>)), Ins("Call")>>
             \o compile(PostNodes)

Failures == {"getlocal", "pop", "operand", "primitive", "call"}

\* operands and operators of the programs that compute one `a <op> b`
OrderSamples == {-2, 0, 1, 3}

OrderTokens == {"OpSub", "OpLess", "OpMore", "OpLessEq", "OpMoreEq"}

HlProgram(kind, conds, haselse, style, pre, k) ==
    [kind |-> kind, conds |-> conds, haselse |-> haselse, style |-> style, pre |-> pre, k |-> k]

BoolSeqs(n) == [1..n -> BOOLEAN]

Styles == {"mark", "return"}

HlPrograms ==
    {HlProgram("chain", cs, e, st, pre, 0) :
        cs \in UNION {BoolSeqs(n) : n \in 1..(MaxElseIf + 1)},
        e \in BOOLEAN, st \in Styles, pre \in 0..1}
    \cup {HlProgram("if_chain", cs, e, "mark", pre, 0) :
        cs \in UNION {BoolSeqs(n) : n \in 2..3}, e \in BOOLEAN, pre \in 0..1}
    \cup {HlProgram("if_while", cs, FALSE, st, pre, 0) :
        cs \in BoolSeqs(2), st \in Styles, pre \in 0..1}
    \cup {HlProgram("while", <<c>>, FALSE, st, pre, 0) :
        c \in BOOLEAN, st \in Styles, pre \in 0..1}
    \cup {HlProgram("count", <<>>, FALSE, "mark", 0, k) : k \in 0..MaxIter}
    \cup {HlProgram("if_count", <<c>>, FALSE, "mark", 0, k) : c \in BOOLEAN, k \in 0..MaxIter}
    \cup {HlProgram("call", <<>>, FALSE, "return", n, j) : n \in 1..3, j \in 1..3}
    \cup {HlProgram("fail", <<>>, FALSE, f, 0, d) : f \in Failures, d \in 0..(MaxDepth - 1)}
    \cup {HlProgram("primitive", <<>>, FALSE, "", index, argc) :
            index \in {0, 1, 7}, argc \in 1..3}
    \cup {HlProgram("binary", <<>>, FALSE, op, a, b) :
            op \in OrderTokens, a \in OrderSamples, b \in OrderSamples}

HlHir(p) ==
    CASE p.kind = "chain" ->
            compile(PreNodes(p.pre) \o <<ChainNode(p.conds, p.haselse, p.style)>> \o PostNodes)
      [] p.kind = "if_chain" ->
            compile(PreNodes(p.pre)
                    \o <<If(<<BoolValue(p.conds[1]),
                              <<ChainNode(Tail(p.conds), p.haselse, p.style)>>>>, <<>>, <<>>)>>
                    \o PostNodes)
      [] p.kind = "if_while" ->
            compile(PreNodes(p.pre)
                    \o <<If(<<BoolValue(p.conds[1]),
                              <<ConstWhileNode(p.conds[2], p.style)>>>>, <<>>, <<>>)>>
                    \o PostNodes)
      [] p.kind = "while" ->
            compile(PreNodes(p.pre) \o <<ConstWhileNode(p.conds[1], p.style)>> \o PostNodes)
      [] p.kind = "count" -> CountingLoopHir(p.k) \o compile(PostNodes)
      [] p.kind = "if_count" ->
            <<Push(HBool(p.conds[1])),
              IfStatement(CountingLoopHir(p.k), <<>>, <<>>)>> \o compile(PostNodes)
      [] p.kind = "call" -> compile(CallNodes(p.pre, IF p.k > p.pre THEN p.pre ELSE p.k))
      [] p.kind = "fail" -> FailingHir(p.style, p.k)
      [] p.kind = "binary" ->
            compile(<<Return(Binary(NumberValue(p.pre), NumberValue(p.k), p.style))>>)
      [] p.kind = "primitive" ->    \* primitive(11, .., 1argc)
            compile(<<PrimitiveFunctionCall(p.pre, NumberNodes(SubSeq(ArgValues, 1, p.k)))>>)

(***************************************************************************)
(* hlvm/src/vm.rs: HighLevelVirtualMachine                                 *)
(***************************************************************************)
HlInit ==
    /\ hl_prog \in HlPrograms
    /\ hl_act = <<[code |-> from_hir(HlHir(hl_prog)), ip |-> 0]>>
    /\ hl_stack = <<>>
    /\ hl_calls = <<EmptyMap>>
    /\ hl_status = "running"
    /\ hl_result = HNum(0)
    /\ hl_out = <<>>
    /\ hl_trace = <<>>

HlCode == Last(hl_act).code

HlIp == Last(hl_act).ip

HlInstr == HlCode[HlIp + 1]

HlRunning == hl_status = "running" /\ Len(hl_trace) < MaxSteps

\* The loop head found an instruction of one of the given kinds at ip.
HlFetch(ops) ==
    /\ HlRunning
    /\ HlIp < Len(HlCode)
    /\ HlInstr.op \in ops
    /\ hl_trace' = Append(hl_trace, [lvl |-> Len(hl_act), ip |-> HlIp,
                                     sp |-> Len(hl_stack), op |-> HlInstr.op])
    /\ UNCHANGED <<lcvars, rnvars, opvars, cpvars, plvars>>

HlGoto(addr) == hl_act' = [hl_act EXCEPT ![Len(hl_act)].ip = addr]

\* `.unwrap()` / `panic!` / `todo!`: the process aborts where it stands.
HlPanic ==
    /\ hl_status' = "panic"
    /\ UNCHANGED <<hl_prog, hl_act, hl_stack, hl_calls, hl_result, hl_out>>

\* An execute() activation ends with value val, the operand stack being stack.
\* The outermost one ends the run; an inner one returns into Callable::call,
\* which pops the frame, and into the Call arm, which pushes val and steps on.
HlFinish(val, stack) ==
    IF Len(hl_act) = 1
    THEN /\ hl_status' = "ok"
         /\ hl_result' = val
         /\ hl_stack' = stack
         /\ UNCHANGED <<hl_prog, hl_act, hl_calls, hl_out>>
    ELSE /\ hl_act' = [Front(hl_act) EXCEPT ![Len(hl_act) - 1].ip = @ + 1]
         /\ hl_calls' = Front(hl_calls)
         /\ hl_stack' = Append(stack, val)
         /\ UNCHANGED <<hl_prog, hl_status, hl_result, hl_out>>

HlPush ==
    /\ HlFetch({"Push"})
    /\ hl_stack' = Append(hl_stack, HlInstr.val)
    /\ HlGoto(HlIp + 1)
    /\ UNCHANGED <<hl_prog, hl_calls, hl_status, hl_result, hl_out>>

HlSetLocal ==
    /\ HlFetch({"SetLocal"})
    /\ IF Len(hl_stack) = 0 THEN HlPanic
       ELSE /\ hl_calls' = [hl_calls EXCEPT ![Len(hl_calls)] =
                                MapInsert(@, HlInstr.name, Last(hl_stack))]
            /\ hl_stack' = Front(hl_stack)
            /\ HlGoto(HlIp + 1)
            /\ UNCHANGED <<hl_prog, hl_status, hl_result, hl_out>>

HlGetLocal ==
    /\ HlFetch({"GetLocal"})
    /\ IF HlInstr.name \notin DOMAIN Last(hl_calls) THEN HlPanic
       ELSE /\ hl_stack' = Append(hl_stack, Last(hl_calls)[HlInstr.name])
            /\ HlGoto(HlIp + 1)
            /\ UNCHANGED <<hl_prog, hl_calls, hl_status, hl_result, hl_out>>

\* Get: current frame first, then the global frame (no arm in vm.rs).
HlGet ==
    /\ HlFetch({"Get"})
    /\ LET name == HlInstr.name IN
       IF name \in DOMAIN Last(hl_calls)
       THEN /\ hl_stack' = Append(hl_stack, Last(hl_calls)[name])
            /\ HlGoto(HlIp + 1)
            /\ UNCHANGED <<hl_prog, hl_calls, hl_status, hl_result, hl_out>>
       ELSE IF name \in DOMAIN hl_calls[1]
       THEN /\ hl_stack' = Append(hl_stack, hl_calls[1][name])
            /\ HlGoto(HlIp + 1)
            /\ UNCHANGED <<hl_prog, hl_calls, hl_status, hl_result, hl_out>>
       ELSE /\ hl_status' = "err"
            /\ UNCHANGED <<hl_prog, hl_act, hl_stack, hl_calls, hl_result, hl_out>>

HlReturnValue ==
    /\ HlFetch({"ReturnValue"})
    /\ IF Len(hl_stack) = 0 THEN HlPanic
       ELSE HlFinish(Last(hl_stack), Front(hl_stack))

\* `if ip >= instructions.len() { break; }` ... `Result::Ok(HlvmValue::Number(0.0))`
HlEnd ==
    /\ HlRunning
    /\ HlIp >= Len(HlCode)
    /\ hl_trace' = Append(hl_trace, [lvl |-> Len(hl_act), ip |-> HlIp,
                                     sp |-> Len(hl_stack), op |-> "end"])
    /\ UNCHANGED <<lcvars, rnvars, opvars, cpvars, plvars>>
    /\ HlFinish(HNum(0), hl_stack)

\* Callable::call binds `for iden in args { locals.insert(iden, stack.pop()) }`.
RECURSIVE BindArguments(_, _, _)
BindArguments(args, stack, locals) ==
    IF Len(args) = 0 THEN [stack |-> stack, locals |-> locals]
    ELSE BindArguments(Tail(args), Front(stack), MapInsert(locals, Head(args), Last(stack)))

HlCall ==
    /\ HlFetch({"Call"})
    /\ IF Len(hl_stack) = 0 THEN HlPanic
       ELSE LET function == Last(hl_stack)
                rest == Front(hl_stack)
            IN IF function.t = "Function"
               THEN IF Len(rest) < Len(function.v.args) THEN HlPanic
                    ELSE LET bound == BindArguments(function.v.args, rest, EmptyMap) IN
                         /\ hl_calls' = Append(hl_calls, bound.locals)
                         /\ hl_stack' = bound.stack
                         /\ hl_act' = Append(hl_act, [code |-> function.v.code, ip |-> 0])
                         /\ UNCHANGED <<hl_prog, hl_status, hl_result, hl_out>>
               ELSE \* Err("Cannot call value"): every enclosing call() pops its frame
                    /\ hl_status' = "err"
                    /\ hl_stack' = rest
                    /\ hl_calls' = SubSeq(hl_calls, 1, Len(hl_calls) - (Len(hl_act) - 1))
                    /\ UNCHANGED <<hl_prog, hl_act, hl_result, hl_out>>

\* arguments are collected in pop order and are not reversed
HlCallPrimitive ==
    /\ HlFetch({"CallPrimitive"})
    /\ LET n == HlInstr.args
           arguments == Reverse(SubSeq(hl_stack, Len(hl_stack) - n + 1, Len(hl_stack)))
       IN IF Len(hl_stack) < n THEN HlPanic
          ELSE IF HlInstr.index = 0
          THEN IF n = 0 THEN HlPanic     \* hlvm_print indexes var[0]
               ELSE /\ hl_out' = Append(hl_out, arguments[1])
                    /\ hl_stack' = Append(DropLast(hl_stack, n), HNum(0))
                    /\ HlGoto(HlIp + 1)
                    /\ UNCHANGED <<hl_prog, hl_calls, hl_status, hl_result>>
          ELSE IF HlInstr.index = 1
          THEN /\ hl_status' = "exit"     \* hlvm_exit: std::process::exit(0)
               /\ hl_stack' = DropLast(hl_stack, n)
               /\ UNCHANGED <<hl_prog, hl_act, hl_calls, hl_result, hl_out>>
          ELSE HlPanic

HlBinaryOps ==
    {"Add", "Subtract", "Multiply", "Equal", "NotEqual", "GreaterThan", "LessThan",
     "GreaterThanOrEqual", "LessThanOrEqual", "And", "Or"}

\* Operation<HlvmValue> (hlvm/src/dev.rs); [ok |-> FALSE] is a panic!.
\* Divide is float division and lies outside the integer-valued fragment.
HlOperate(op, left, right) ==
    LET nums == left.t = "Number" /\ right.t = "Number"
        Ok(val) == [ok |-> TRUE, val |-> val]
        Fail == [ok |-> FALSE, val |-> HNum(0)]
    IN CASE op = "Add" ->
              IF nums THEN Ok(HNum(left.v + right.v))
              ELSE IF left.t = "String" /\ right.t = "String" THEN Ok(HStr(left.v \o "_b"))
              ELSE Fail
         [] op = "Subtract" -> IF nums THEN Ok(HNum(left.v - right.v)) ELSE Fail
         [] op = "Multiply" -> IF nums THEN Ok(HNum(left.v * right.v)) ELSE Fail
         [] op = "Equal" -> Ok(HBool(left = right))
         [] op = "NotEqual" -> Ok(HBool(left # right))
         [] op = "GreaterThan" -> IF nums THEN Ok(HBool(left.v > right.v)) ELSE Fail
         [] op = "LessThan" -> IF nums THEN Ok(HBool(left.v < right.v)) ELSE Fail
         [] op = "GreaterThanOrEqual" -> IF nums THEN Ok(HBool(left.v >= right.v)) ELSE Fail
         [] op = "LessThanOrEqual" -> IF nums THEN Ok(HBool(left.v <= right.v)) ELSE Fail
         [] op = "And" -> Ok(HBool(is_truthy(left) /\ is_truthy(right)))
         [] op = "Or" -> Ok(HBool(is_truthy(left) \/ is_truthy(right)))

HlBinary ==
    /\ HlFetch(HlBinaryOps)
    /\ IF Len(hl_stack) < 2 THEN HlPanic
       ELSE LET right == hl_stack[Len(hl_stack)]
                left == hl_stack[Len(hl_stack) - 1]
                res == HlOperate(HlInstr.op, left, right)
            IN IF ~res.ok THEN HlPanic
               ELSE /\ hl_stack' = Append(DropLast(hl_stack, 2), res.val)
                    /\ HlGoto(HlIp + 1)
                    /\ UNCHANGED <<hl_prog, hl_calls, hl_status, hl_result, hl_out>>

HlNot ==
    /\ HlFetch({"Not"})
    /\ IF Len(hl_stack) = 0 THEN HlPanic
       ELSE /\ hl_stack' = Append(Front(hl_stack), HBool(~is_truthy(Last(hl_stack))))
            /\ HlGoto(HlIp + 1)
            /\ UNCHANGED <<hl_prog, hl_calls, hl_status, hl_result, hl_out>>

HlJump ==
    /\ HlFetch({"Jump"})
    /\ HlGoto(HlInstr.addr)
    /\ UNCHANGED <<hl_prog, hl_stack, hl_calls, hl_status, hl_result, hl_out>>

HlJumpIf ==
    /\ HlFetch({"JumpIf"})
    /\ IF Len(hl_stack) = 0 THEN HlPanic
       ELSE /\ hl_stack' = Front(hl_stack)
            /\ HlGoto(IF is_truthy(Last(hl_stack)) THEN HlInstr.addr ELSE HlIp + 1)
            /\ UNCHANGED <<hl_prog, hl_calls, hl_status, hl_result, hl_out>>

HlNext ==
    \/ HlPush
    \/ HlSetLocal
    \/ HlGetLocal
    \/ HlGet
    \/ HlReturnValue
    \/ HlEnd
    \/ HlCall
    \/ HlCallPrimitive
    \/ HlBinary
    \/ HlNot
    \/ HlJump
    \/ HlJumpIf

(***************************************************************************)
(* 32-bit signed integers (i32: Value::Number in lacec/src/common.rs,      *)
(* Value::Integer in src/vm/opcode.rs).  Every operator below keeps its    *)
(* intermediate results inside the 32-bit range.                           *)
(***************************************************************************)
I32Max == 2147483647

I32Min == -2147483647 - 1

AddFits(a, b) == IF b >= 0 THEN a <= I32Max - b ELSE a >= I32Min - b

SubFits(a, b) == IF b >= 0 THEN a >= I32Min + b ELSE a <= I32Max + b

Abs(a) == IF a < 0 THEN -a ELSE a

MulFits(a, b) ==
    IF a = 0 \/ b = 0 \/ a = 1 \/ b = 1 THEN TRUE
    ELSE IF a = I32Min \/ b = I32Min THEN FALSE
    ELSE IF a = -1 \/ b = -1 THEN TRUE
    ELSE IF (a < 0) = (b < 0)
         THEN Abs(a) <= I32Max \div Abs(b)
         ELSE \* the product may reach -2^31: |a| * |b| <= 2^31
              Abs(a) <= (I32Max \div Abs(b))
                            + (IF I32Max % Abs(b) = Abs(b) - 1 THEN 1 ELSE 0)

Some(val) == [some |-> TRUE, val |-> val]

None == [some |-> FALSE, val |-> 0]

checked_add(a, b) == IF AddFits(a, b) THEN Some(a + b) ELSE None

checked_sub(a, b) == IF SubFits(a, b) THEN Some(a - b) ELSE None

checked_mul(a, b) == IF MulFits(a, b) THEN Some(a * b) ELSE None

\* `a / b` and `a % b` on i32 where they are defined: the quotient is rounded
\* towards zero and the remainder takes the sign of the dividend; towards_zero
\* is the quotient by a positive divisor
towards_zero(a, b) == IF a < 0 /\ a % b # 0 THEN (a \div b) + 1 ELSE a \div b

quotient(a, b) ==
    IF b > 0 THEN towards_zero(a, b)
    ELSE IF b = I32Min THEN (IF a = I32Min THEN 1 ELSE 0)
    ELSE -towards_zero(a, -b)

remainder(a, b) == a - b * quotient(a, b)

\* None for a zero divisor and for i32::MIN with -1
checked_div(a, b) ==
    IF b = 0 \/ (a = I32Min /\ b = -1) THEN None ELSE Some(quotient(a, b))

checked_rem(a, b) ==
    IF b = 0 \/ (a = I32Min /\ b = -1) THEN None ELSE Some(remainder(a, b))

\* two's-complement results of the unchecked operators in a release build
wrapping_add(a, b) ==
    IF AddFits(a, b) THEN a + b
    ELSE IF b > 0 THEN (a + I32Min) + (b + I32Min)
    ELSE (a - I32Min) + (b - I32Min)

wrapping_sub(a, b) ==
    IF SubFits(a, b) THEN a - b
    ELSE IF b < 0 THEN (a + I32Min) - (b - I32Min)
    ELSE (a - I32Min) - (b + I32Min)

\* little-endian bytes of the two's-complement representation
Bytes(a) == <<a % 256, (a \div 256) % 256, (a \div 65536) % 256, (a \div 16777216) % 256>>

FromBytes(r) ==
    (IF r[4] >= 128 THEN r[4] - 256 ELSE r[4]) * 16777216 + r[3] * 65536 + r[2] * 256 + r[1]

wrapping_mul(a, b) ==
    LET x == Bytes(a)
        y == Bytes(b)
        t0 == x[1] * y[1]
        t1 == x[1] * y[2] + x[2] * y[1] + (t0 \div 256)
        t2 == x[1] * y[3] + x[2] * y[2] + x[3] * y[1] + (t1 \div 256)
        t3 == x[1] * y[4] + x[2] * y[3] + x[3] * y[2] + x[4] * y[1] + (t2 \div 256)
    IN FromBytes(<<t0 % 256, t1 % 256, t2 % 256, t3 % 256>>)

wrapping_neg(a) == IF a = I32Min THEN I32Min ELSE -a

(***************************************************************************)
(* lacec/src/common.rs: Value, Node, Instruction                           *)
(***************************************************************************)
ValueNumber(n) == [t |-> "Number", v |-> n]

ValueString(s) == [t |-> "String", v |-> s]

ValueTrue == [t |-> "True", v |-> 0]

ValueFalse == [t |-> "False", v |-> 0]

ValueNone == [t |-> "None", v |-> 0]

ValueIdentifier(iden) == [t |-> "Identifier", v |-> iden]

\* Float(f32): the model holds a float that is a multiple of 1/2 as twice its value
ValueFloat(twice) == [t |-> "Float", v |-> twice]

ValueArray(list) == [t |-> "Array", v |-> list]

\* the array literal of the AST: its elements are nodes
ValueNodeArray(nodes) == [t |-> "NodeArray", v |-> nodes]

ValueFunction(code, parameters) ==
    [t |-> "Function", v |-> [code |-> code, parameters |-> parameters]]

bool2value(rbool) == IF rbool THEN ValueTrue ELSE ValueFalse

\* `_ => panic!("istruthy on private variant")`
IsPrivate(val) == val.t \in {"Identifier", "NodeArray", "NodeFunction"}

istruthy(val) ==
    CASE val.t = "String" -> Len(val.v) > 0
      [] val.t = "Function" -> Len(val.v.code) > 0
      [] val.t = "Number" -> val.v > 0
      [] val.t = "Float" -> val.v > 0
      [] val.t = "Array" -> Len(val.v) > 0
      [] val.t = "True" -> TRUE
      [] val.t = "False" -> FALSE
      [] val.t = "None" -> FALSE

NodeValue(value) == [node |-> "Value", value |-> value]

NodeUnary(operand, operation) == [node |-> "Unary", operand |-> operand, operation |-> operation]

NodeReturn(value) == [node |-> "Return", value |-> value]

NodeReturnNone == [node |-> "ReturnNone"]

NodeFunction(name, params, function) ==
    [node |-> "Function", name |-> name, params |-> params, function |-> function]

NodeFunctionCall(name, arguments) ==
    [node |-> "FunctionCall", name |-> name, arguments |-> arguments]

NodePrimitiveFunctionCall(name, arguments) ==
    [node |-> "PrimitiveFunctionCall", name |-> name, arguments |-> arguments]

NodeWhileLoop(condition, body) == [node |-> "WhileLoop", condition |-> condition, body |-> body]

NodeBinary(left, right, operator) ==
    [node |-> "Binary", left |-> left, right |-> right, operator |-> operator]

NodeVariableAssignment(name, value) ==
    [node |-> "VariableAssignment", name |-> name, value |-> value]

LoadConstant(idx) == [op |-> "LoadConstant", idx |-> idx]

LoadVariable(idx) == [op |-> "LoadVariable", idx |-> idx]

AssignVariable(idx) == [op |-> "AssignVariable", idx |-> idx]

CallFunction(len) == [op |-> "CallFunction", len |-> len]

CallPrimitiveFunction(len, name) == [op |-> "CallPrimitiveFunction", len |-> len, name |-> name]

JumpF(idx) == [op |-> "JumpF", addr |-> idx]

JumpT(idx) == [op |-> "JumpT", addr |-> idx]

(***************************************************************************)
(* lacec/src/lace/lacec.rs: Constants, Compiler                            *)
(* The compiler state threaded through is [ok, constants, chunk]; ok turns *)
(* FALSE when the compiler reaches one of its `_ => panic!()` arms, and    *)
(* nothing is compiled after that.                                         *)
(***************************************************************************)
\* Variant that looks the value up in a pool common to all compilers (the
\* first compiler's) instead of the compiler's own.
add_constant_shared(constants, value) ==
    IF \E i \in 1..Len(cp_a.constants) : cp_a.constants[i] = value
    THEN [constants |-> constants,
          index |-> (CHOOSE i \in 1..Len(cp_a.constants) : cp_a.constants[i] = value) - 1]
    ELSE [constants |-> Append(constants, value), index |-> Len(constants)]

\* Variant without the search: every value is appended.
add_constant_append(constants, value) ==
    [constants |-> Append(constants, value), index |-> Len(constants)]

add_constant(constants, value) ==
    IF \E i \in 1..Len(constants) : constants[i] = value
    THEN [constants |-> constants,
          index |-> (CHOOSE i \in 1..Len(constants) :
                        /\ constants[i] = value
                        /\ \A j \in 1..(i - 1) : constants[j] # value) - 1]
    ELSE [constants |-> Append(constants, value), index |-> Len(constants)]

\* chunk.push(instruction)
Emit(st, instruction) == [st EXCEPT !.chunk = Append(@, instruction)]

\* add_constant(value) followed by the push of the instruction built on its index
EmitIndexed(st, value, kind) ==
    LET c == add_constant(st.constants, value) IN
    [ok |-> st.ok,
     constants |-> c.constants,
     chunk |-> Append(st.chunk, CASE kind = "LoadVariable" -> LoadVariable(c.index)
                                  [] kind = "LoadConstant" -> LoadConstant(c.index)
                                  [] kind = "AssignVariable" -> AssignVariable(c.index))]

\* `_ => panic!()`
CompilerPanic(st) == [st EXCEPT !.ok = FALSE]

UnaryInstruction(operation) ==
    CASE operation = "LogicalNot" -> Ins("LogicalNot")
      [] operation = "Negate" -> Ins("Negate")
      [] operation = "Typeof" -> Ins("Typeof")

BinaryTokens ==
    {"OpAdd", "OpSub", "OpMul", "OpDiv", "OpMod", "OpPow", "OpBangEq", "OpEq", "OpLessEq",
     "OpMoreEq", "OpLeftShift", "OpRightShift", "OpLess", "OpMore", "KwAnd", "KwOr"}

BinaryInstruction(operator) ==
    CASE operator = "OpAdd" -> Ins("Add")
      [] operator = "OpSub" -> Ins("Sub")
      [] operator = "OpMul" -> Ins("Mul")
      [] operator = "OpDiv" -> Ins("Div")
      [] operator = "OpMod" -> Ins("Mod")
      [] operator = "OpPow" -> Ins("Pow")
      [] operator = "OpBangEq" -> Ins("UnEq")
      [] operator = "OpEq" -> Ins("Eq")
      [] operator = "OpLessEq" -> Ins("LessEq")
      [] operator = "OpMoreEq" -> Ins("MoreEq")
      [] operator = "OpLeftShift" -> Ins("LeftShift")
      [] operator = "OpRightShift" -> Ins("RightShift")
      [] operator = "OpLess" -> Ins("Less")
      [] operator = "OpMore" -> Ins("More")
      [] operator = "KwAnd" -> Ins("BinaryAnd")
      [] operator = "KwOr" -> Ins("BinaryOr")

RECURSIVE compile_expression(_, _)
RECURSIVE CompileArguments(_, _)
\* `for argument in arguments { self.compile_expression(argument, chunk); }`
CompileArguments(st, arguments) ==
    IF Len(arguments) = 0 THEN st
    ELSE LET first == compile_expression(st, Head(arguments)) IN
         IF ~first.ok THEN first ELSE CompileArguments(first, Tail(arguments))

compile_expression(st, node) ==
    CASE node.node = "Value" ->
            IF node.value.t = "Identifier" THEN EmitIndexed(st, node.value, "LoadVariable")
            ELSE IF node.value.t = "NodeArray" THEN st
            ELSE EmitIndexed(st, node.value, "LoadConstant")
      [] node.node = "Unary" ->
            LET operand == compile_expression(st, node.operand) IN
            IF ~operand.ok THEN operand ELSE Emit(operand, UnaryInstruction(node.operation))
      [] node.node = "Binary" ->
            LET left == compile_expression(st, node.left) IN
            IF ~left.ok THEN left
            ELSE LET right == compile_expression(left, node.right) IN
                 IF ~right.ok THEN right
                 ELSE IF node.operator \notin BinaryTokens THEN CompilerPanic(right)
                 ELSE Emit(right, BinaryInstruction(node.operator))
      [] node.node = "FunctionCall" ->
            LET c == add_constant(st.constants, ValueIdentifier(node.name))
                args == CompileArguments([st EXCEPT !.constants = c.constants], node.arguments)
            IN IF ~args.ok THEN args
               ELSE [args EXCEPT !.chunk = @ \o <<LoadVariable(c.index),
                                                   CallFunction(Len(node.arguments))>>]
      [] node.node = "PrimitiveFunctionCall" ->
            LET c == add_constant(st.constants, ValueIdentifier(node.name))
                args == CompileArguments([st EXCEPT !.constants = c.constants], node.arguments)
            IN IF ~args.ok THEN args
               ELSE Emit(args, CallPrimitiveFunction(Len(node.arguments), c.index))
      [] OTHER -> CompilerPanic(st)

RECURSIVE compile_node(_, _)
RECURSIVE CompileNodes(_, _)
\* `for node in body { self.compile_node(node, chunk); }`
CompileNodes(st, nodes) ==
    IF Len(nodes) = 0 THEN st
    ELSE LET first == compile_node(st, Head(nodes)) IN
         IF ~first.ok THEN first ELSE CompileNodes(first, Tail(nodes))

compile_node(st, node) ==
    CASE node.node \in {"Unary", "Value", "Binary", "FunctionCall", "PrimitiveFunctionCall"} ->
            compile_expression(st, node)
      [] node.node = "Return" ->
            LET value == compile_expression(st, node.value) IN
            IF ~value.ok THEN value ELSE Emit(value, Ins("Return"))
      [] node.node = "ReturnNone" -> Emit(st, Ins("ReturnNone"))
      [] node.node \in {"VariableDeclr", "VariableAssignment"} ->
            LET value == compile_expression(st, node.value) IN
            IF ~value.ok THEN value
            ELSE EmitIndexed(value, ValueIdentifier(node.name), "AssignVariable")
      [] node.node = "Function" ->
            LET body == CompileNodes([st EXCEPT !.chunk = <<>>], node.function) IN
            IF ~body.ok THEN body
            ELSE LET function == ValueFunction(body.chunk, node.params)
                     f == add_constant(body.constants, function)
                     n == add_constant(f.constants, ValueIdentifier(node.name))
                 IN [ok |-> TRUE,
                     constants |-> n.constants,
                     chunk |-> st.chunk \o <<LoadConstant(f.index), AssignVariable(n.index)>>]
      [] node.node = "WhileLoop" ->
            LET jump_idx == Len(st.chunk)
                condition == compile_expression(st, node.condition)
            IN IF ~condition.ok THEN condition
               ELSE LET jumpf_idx == Len(condition.chunk)
                        body == CompileNodes(Emit(condition, JumpF(0)), node.body)
                    IN IF ~body.ok THEN body
                       ELSE [body EXCEPT
                               !.chunk = [Append(@, Jump(jump_idx)) EXCEPT
                                            ![jumpf_idx + 1] = JumpF(Len(body.chunk) + 1)]]

\* Compiler::new(source) followed by compile(&mut chunk) on an empty chunk
lacec_compile(source) == CompileNodes([ok |-> TRUE, constants |-> <<>>, chunk |-> <<>>], source)

(***************************************************************************)
(* lacec/src/common.rs: impl Operations for Value                          *)
(* An operation either returns a value or panics.  The i32 operators       *)
(* `+ - *` and unary `-` are unchecked in the source: with overflow checks *)
(* compiled in (a debug build) an out-of-range result panics, without them *)
(* (a release build) it wraps.  overflow_checks is that build setting.     *)
(***************************************************************************)
Returns(val) == [ok |-> TRUE, val |-> val]

Panics == [ok |-> FALSE, val |-> ValueNone]

BothNumbers(a, b) == a.t = "Number" /\ b.t = "Number"

\* `num as usize`: a negative i32 becomes a count of at least 2^63
as_usize(num) == [huge |-> num < 0, n |-> num]

RECURSIVE RepeatStr(_, _)
RepeatStr(str, n) == IF n <= 0 THEN "" ELSE str \o RepeatStr(str, n - 1)

\* str::repeat: the capacity str.len() * count is computed with a checked
\* multiplication and allocated up front ("capacity overflow" otherwise)
repeat(str, count) ==
    IF ~count.huge THEN Returns(ValueString(RepeatStr(str, count.n)))
    ELSE IF Len(str) = 0 THEN Returns(ValueString(""))
    ELSE Panics

Operations_add(a, b, overflow_checks) ==
    IF BothNumbers(a, b)
    THEN IF AddFits(a.v, b.v) THEN Returns(ValueNumber(a.v + b.v))
         ELSE IF overflow_checks THEN Panics
         ELSE Returns(ValueNumber(wrapping_add(a.v, b.v)))
    ELSE IF a.t = "String" /\ b.t = "String" THEN Returns(ValueString(a.v \o b.v))
    ELSE Panics

Operations_sub(a, b, overflow_checks) ==
    IF BothNumbers(a, b)
    THEN IF SubFits(a.v, b.v) THEN Returns(ValueNumber(a.v - b.v))
         ELSE IF overflow_checks THEN Panics
         ELSE Returns(ValueNumber(wrapping_sub(a.v, b.v)))
    ELSE Panics

Operations_mul(a, b, overflow_checks) ==
    IF BothNumbers(a, b)
    THEN IF MulFits(a.v, b.v) THEN Returns(ValueNumber(a.v * b.v))
         ELSE IF overflow_checks THEN Panics
         ELSE Returns(ValueNumber(wrapping_mul(a.v, b.v)))
    ELSE IF a.t = "String" /\ b.t = "Number" THEN repeat(a.v, as_usize(b.v))
    ELSE Panics

\* `a / b` and `a % b` on i32 panic for a zero divisor and for i32::MIN with
\* -1 in every build; the float arms lie outside the integer fragment
Operations_div(a, b) ==
    IF BothNumbers(a, b)
    THEN IF b.v = 0 \/ (a.v = I32Min /\ b.v = -1) THEN Panics
         ELSE Returns(ValueNumber(quotient(a.v, b.v)))
    ELSE Panics

Operations_rem(a, b) ==
    IF BothNumbers(a, b)
    THEN IF b.v = 0 \/ (a.v = I32Min /\ b.v = -1) THEN Panics
         ELSE Returns(ValueNumber(remainder(a.v, b.v)))
    ELSE Panics

Operations_negate(a, overflow_checks) ==
    IF a.t = "Number"
    THEN IF a.v # I32Min THEN Returns(ValueNumber(-a.v))
         ELSE IF overflow_checks THEN Panics
         ELSE Returns(ValueNumber(wrapping_neg(a.v)))
    ELSE Panics

Operations_not(a) == IF IsPrivate(a) THEN Panics ELSE Returns(bool2value(~istruthy(a)))

tpyeof(a) ==
    CASE a.t = "String" -> Returns(ValueString("string"))
      [] a.t = "Function" -> Returns(ValueString("function"))
      [] a.t = "Number" -> Returns(ValueString("number"))
      [] a.t = "Float" -> Returns(ValueString("float"))
      [] a.t = "Array" -> Returns(ValueString("array"))
      [] a.t \in {"True", "False"} -> Returns(ValueString("bool"))
      [] a.t = "None" -> Returns(ValueString("none"))
      [] OTHER -> Panics

Compare(a, b, holds) == IF BothNumbers(a, b) THEN Returns(bool2value(holds)) ELSE Panics

\* The binary operations of the integer and string fragment; Pow and the
\* shifts are not part of it.
LcBinaryOps ==
    {"Add", "Sub", "Mul", "Div", "Mod", "Eq", "UnEq", "More", "Less", "MoreEq", "LessEq"}

LcOperate(op, a, b, overflow_checks) ==
    CASE op = "Add" -> Operations_add(a, b, overflow_checks)
      [] op = "Sub" -> Operations_sub(a, b, overflow_checks)
      [] op = "Mul" -> Operations_mul(a, b, overflow_checks)
      [] op = "Div" -> Operations_div(a, b)
      [] op = "Mod" -> Operations_rem(a, b)
      [] op = "Eq" -> Returns(bool2value(a = b))
      [] op = "UnEq" -> Returns(bool2value(a # b))
      [] op = "More" -> Compare(a, b, a.v > b.v)
      [] op = "Less" -> Compare(a, b, a.v < b.v)
      [] op = "MoreEq" -> Compare(a, b, a.v >= b.v)
      [] op = "LessEq" -> Compare(a, b, a.v <= b.v)

LcUnaryOps == {"LogicalNot", "Negate", "Typeof"}

LcUnaryOperate(op, a, overflow_checks) ==
    CASE op = "LogicalNot" -> Operations_not(a)
      [] op = "Negate" -> Operations_negate(a, overflow_checks)
      [] op = "Typeof" -> tpyeof(a)

(***************************************************************************)
(* Programs compiled by lacec and run on the lace VM                       *)
(***************************************************************************)
NumberNode(n) == NodeValue(ValueNumber(n))

IdentifierNode(name) == NodeValue(ValueIdentifier(name))

FnNames == <<"f1", "f2", "f3", "f4", "f5", "f6">>

\* literal arguments 11, 12, .. or the same values computed as 10 + i
RECURSIVE ArgumentNodes(_, _, _)
ArgumentNodes(style, i, n) ==
    IF i > n THEN <<>>
    ELSE <<IF style = "lit" THEN NumberNode(ArgValues[i])
           ELSE NodeBinary(NumberNode(10), NumberNode(i), "OpAdd")>>
         \o ArgumentNodes(style, i + 1, n)

\* fn f1(p1, .., pn) { return pj; }  r = f1(a1, .., am);  z = 9
LcCallNodes(style, n, m, j) ==
    <<NodeFunction(FnNames[1], SubSeq(ParamNames, 1, n), <<NodeReturn(IdentifierNode(ParamNames[j]))>>),
      NodeVariableAssignment("r", NodeFunctionCall(FnNames[1], ArgumentNodes(style, 1, m))),
      NodeVariableAssignment("z", NumberNode(9))>>

\* fn f1(p1, .., pn) { return p1; }  r = 5 + f1(a1, .., am);  z = 9
LcUnderNodes(n, m) ==
    <<NodeFunction(FnNames[1], SubSeq(ParamNames, 1, n), <<NodeReturn(IdentifierNode(ParamNames[1]))>>),
      NodeVariableAssignment("r", NodeBinary(NumberNode(5),
                                             NodeFunctionCall(FnNames[1], ArgumentNodes("lit", 1, m)),
                                             "OpAdd")),
      NodeVariableAssignment("z", NumberNode(9))>>

\* The chain f1 -> f2 -> .. -> fd of nested calls, in three styles:
\*   "return"  fi(x) { return fi+1(x); }    fd(x) { return x; }
\*   "stmt"    fi(x) { fi+1(x); return i; } fd(x) { return x; }
\*   "none"    fi(x) { y = fi+1(x); return; }   fd(x) { y = x; }
NestBody(style, i, d) ==
    LET inner == NodeFunctionCall(FnNames[i + 1], <<IdentifierNode("x")>>) IN
    IF i = d
    THEN IF style = "none" THEN <<NodeVariableAssignment("y", IdentifierNode("x"))>>
         ELSE <<NodeReturn(IdentifierNode("x"))>>
    ELSE CASE style = "return" -> <<NodeReturn(inner)>>
           [] style = "stmt" -> <<inner, NodeReturn(NumberNode(i))>>
           [] style = "none" -> <<NodeVariableAssignment("y", inner), NodeReturnNone>>

RECURSIVE NestFunctions(_, _, _)
NestFunctions(style, i, d) ==
    IF i > d THEN <<>>
    ELSE <<NodeFunction(FnNames[i], <<"x">>, NestBody(style, i, d))>>
         \o NestFunctions(style, i + 1, d)

LcNestNodes(style, d) ==
    NestFunctions(style, 1, d)
        \o <<NodeVariableAssignment("r", NodeFunctionCall(FnNames[1], <<NumberNode(5)>>)),
             NodeVariableAssignment("z", NumberNode(9))>>

\* n = k; c = 0; while n > 0 { c = c + 1; n = n - 1 }  z = 9
LcCountNodes(k) ==
    <<NodeVariableAssignment("n", NumberNode(k)),
      NodeVariableAssignment("c", NumberNode(0)),
      NodeWhileLoop(NodeBinary(IdentifierNode("n"), NumberNode(0), "OpMore"),
                    <<NodeVariableAssignment("c", NodeBinary(IdentifierNode("c"), NumberNode(1), "OpAdd")),
                      NodeVariableAssignment("n", NodeBinary(IdentifierNode("n"), NumberNode(1), "OpSub"))>>),
      NodeVariableAssignment("z", NumberNode(9))>>

\* while <value> { b0 = 1 }  z = 9
LcWhileNodes(value) ==
    <<NodeWhileLoop(NodeValue(value), <<NodeVariableAssignment("b0", NumberNode(1))>>),
      NodeVariableAssignment("z", NumberNode(9))>>

\* r = a <op> b
LcBinaryNodes(a, b, operator) ==
    <<NodeVariableAssignment("r", NodeBinary(NodeValue(a), NodeValue(b), operator))>>

\* r = <op> a
LcUnaryNodes(a, operation) ==
    <<NodeVariableAssignment("r", NodeUnary(NodeValue(a), operation))>>

\* fn f1(x) { return x; }  n = k;  while n > 0 { f1(n); n = n - 1 }  z = 9
LcLoopCallNodes(k) ==
    <<NodeFunction(FnNames[1], <<"x">>, <<NodeReturn(IdentifierNode("x"))>>),
      NodeVariableAssignment("n", NumberNode(k)),
      NodeWhileLoop(NodeBinary(IdentifierNode("n"), NumberNode(0), "OpMore"),
                    <<NodeFunctionCall(FnNames[1], <<IdentifierNode("n")>>),
                      NodeVariableAssignment("n", NodeBinary(IdentifierNode("n"), NumberNode(1), "OpSub"))>>),
      NodeVariableAssignment("z", NumberNode(9))>>

\* r = !(a - b)
LcTruthyNodes(a, b) ==
    <<NodeVariableAssignment("r", NodeUnary(NodeBinary(NodeValue(a), NodeValue(b), "OpSub"),
                                            "LogicalNot"))>>

\* return v
LcLiteralNodes(v) == <<NodeReturn(NodeValue(v))>>

\* Three frames and one name y:
\*   [y = 1]  fn f1(x) { y = 2; return f2(x); }  fn f2(x) { [y = 3;] return y; }
\*   r = f1(5)  z = 9
\* y = 1 is there in the styles "global" and "both", y = 3 in "local" and "both";
\* in the style "mid" only f1, the frame between, binds y.
LcScopeNodes(style) ==
    (IF style \in {"global", "both"} THEN <<NodeVariableAssignment("y", NumberNode(1))>> ELSE <<>>)
        \o <<NodeFunction(FnNames[1], <<"x">>,
                          <<NodeVariableAssignment("y", NumberNode(2)),
                            NodeReturn(NodeFunctionCall(FnNames[2], <<IdentifierNode("x")>>))>>),
             NodeFunction(FnNames[2], <<"x">>,
                          (IF style \in {"local", "both"}
                           THEN <<NodeVariableAssignment("y", NumberNode(3))>> ELSE <<>>)
                              \o <<NodeReturn(IdentifierNode("y"))>>),
             NodeVariableAssignment("r", NodeFunctionCall(FnNames[1], <<NumberNode(5)>>)),
             NodeVariableAssignment("z", NumberNode(9))>>

\* name!(1, 2)  z = 9
LcPrimitiveNodes(name) ==
    <<NodePrimitiveFunctionCall(name, <<NumberNode(1), NumberNode(2)>>),
      NodeVariableAssignment("z", NumberNode(9))>>

I32Samples == {I32Min, I32Min + 1, -65536, -2, -1, 0, 1, 2, 3, 65535, 65536, I32Max - 1, I32Max}

StringSamples == {"", "x", "ab"}

CountSamples == {I32Min, -2, -1, 0, 1, 2, 3}

\* operands of `/` and `%`
DividendSamples == {I32Min, -7, 0, 7, I32Max}

DivisorSamples == {-2, -1, 0, 2}

LcSampleValues ==
    {ValueTrue, ValueFalse, ValueNone, ValueNumber(0), ValueNumber(1), ValueNumber(-1),
     ValueString(""), ValueString("ab")}

\* the literals: numbers, floats, strings, booleans, none and arrays, an array
\* either as the value Array or as the AST's NodeArray of element nodes
LiteralSamples ==
    {ValueNumber(n) : n \in {I32Min, -7, 0, 1, I32Max}}
        \cup {ValueFloat(f) : f \in {-3, 0, 5}}
        \cup {ValueString(str) : str \in StringSamples}
        \cup {ValueTrue, ValueFalse, ValueNone}
        \cup {ValueArray(<<>>), ValueArray(<<ValueNumber(1), ValueString("x")>>)}
        \cup {ValueNodeArray(<<>>), ValueNodeArray(<<NumberNode(1), NumberNode(2)>>)}

\* values a bytecode file can hold as a constant and a guard can meet on the
\* stack, the variants istruthy panics on included
GuardSamples ==
    LcSampleValues \cup LiteralSamples
        \cup {ValueIdentifier("x"), ValueFunction(<<>>, <<>>),
              ValueFunction(<<Ins("ReturnNone")>>, <<>>)}

\* Two bytecode files that guard `b0 = 5` by the value v, over the value 5
\* left on the stack; they are written by hand as lacec emits no JumpT.
\*   "JumpF":  5, v, JumpF(5), b0 = 5, (5:) z = 5
\*   "JumpT":  5, v, LogicalNot, JumpT(6), b0 = 5, (6:) z = 5
GuardBytecode(encoding, v) ==
    [ok |-> TRUE,
     constants |-> <<ValueNumber(5), v, ValueIdentifier("b0"), ValueIdentifier("z")>>,
     chunk |-> <<LoadConstant(0), LoadConstant(1)>>
                 \o (IF encoding = "JumpF" THEN <<JumpF(5)>>
                     ELSE <<Ins("LogicalNot"), JumpT(6)>>)
                 \o <<LoadConstant(0), AssignVariable(2), LoadConstant(0), AssignVariable(3)>>]

LcProgram(kind, style, n, m, j, a, b) ==
    [kind |-> kind, style |-> style, n |-> n, m |-> m, j |-> j, a |-> a, b |-> b]

\* the programs that are compiled from source
LcSourcePrograms ==
    {LcProgram("call", st, n, m, j, ValueNone, ValueNone) :
        st \in {"lit", "expr"}, n \in 1..3, m \in 1..3, j \in 1..3}
    \cup {LcProgram("nest", st, d, 0, 0, ValueNone, ValueNone) :
            st \in {"return", "stmt", "none"}, d \in 1..MaxDepth}
    \cup {LcProgram("count", "", k, 0, 0, ValueNone, ValueNone) : k \in 0..MaxIter}
    \cup {LcProgram("while", "", 0, 0, 0, v, ValueNone) : v \in LcSampleValues}
    \cup {LcProgram("binary", op, 0, 0, 0, ValueNumber(a), ValueNumber(b)) :
            op \in {"OpAdd", "OpSub", "OpMul"}, a \in I32Samples, b \in I32Samples}
    \cup {LcProgram("binary", op, 0, 0, 0, ValueNumber(a), ValueNumber(b)) :
            op \in OrderTokens, a \in OrderSamples, b \in OrderSamples}
    \cup {LcProgram("binary", op, 0, 0, 0, ValueNumber(a), ValueNumber(b)) :
            op \in {"OpDiv", "OpMod"}, a \in DividendSamples, b \in DivisorSamples}
    \cup {LcProgram("binary", "OpMul", 0, 0, 0, ValueString(s), ValueNumber(n)) :
            s \in StringSamples, n \in CountSamples}
    \cup {LcProgram("binary", "OpAdd", 0, 0, 0, ValueString(s), ValueString(t)) :
            s \in StringSamples, t \in StringSamples}
    \cup {LcProgram("unary", "Negate", 0, 0, 0, ValueNumber(a), ValueNone) : a \in I32Samples}
    \cup {LcProgram("unary", op, 0, 0, 0, v, ValueNone) :
            op \in {"LogicalNot", "Typeof"}, v \in LcSampleValues}
    \cup {LcProgram("primitive", name, 0, 0, 0, ValueNone, ValueNone) :
            name \in {"writeln!", "exit!", "read!"}}
    \cup {LcProgram("literal", "", 0, 0, 0, v, ValueNone) : v \in LiteralSamples}
    \cup {LcProgram("truthy", "", 0, 0, 0, ValueNumber(a), ValueNumber(b)) :
            a \in {0, 1, 2}, b \in {0, 1, 2}}
    \cup {LcProgram("loopcall", "", k, 0, 0, ValueNone, ValueNone) : k \in 0..MaxIter}
    \cup {LcProgram("scope", st, 0, 0, 0, ValueNone, ValueNone) :
            st \in {"mid", "global", "local", "both"}}
    \cup {LcProgram("under", "", n, m, 0, ValueNone, ValueNone) : n \in 1..3, m \in 0..3}

LcPrograms ==
    LcSourcePrograms
        \cup {LcProgram("guard", encoding, 0, 0, 0, v, ValueNone) :
                encoding \in {"JumpF", "JumpT"}, v \in GuardSamples}

LcSource(p) ==
    CASE p.kind = "call" -> LcCallNodes(p.style, p.n, p.m, IF p.j > p.n THEN p.n ELSE p.j)
      [] p.kind = "nest" -> LcNestNodes(p.style, p.n)
      [] p.kind = "count" -> LcCountNodes(p.n)
      [] p.kind = "while" -> LcWhileNodes(p.a)
      [] p.kind = "binary" -> LcBinaryNodes(p.a, p.b, p.style)
      [] p.kind = "unary" -> LcUnaryNodes(p.a, p.style)
      [] p.kind = "primitive" -> LcPrimitiveNodes(p.style)
      [] p.kind = "literal" -> LcLiteralNodes(p.a)
      [] p.kind = "scope" -> LcScopeNodes(p.style)
      [] p.kind = "truthy" -> LcTruthyNodes(p.a, p.b)
      [] p.kind = "loopcall" -> LcLoopCallNodes(p.n)
      [] p.kind = "under" -> LcUnderNodes(p.n, p.m)

\* the file the VM is given: constants and instructions
LcBytecode(p) ==
    IF p.kind = "guard" THEN GuardBytecode(p.style, p.a) ELSE lacec_compile(LcSource(p))

(***************************************************************************)
(* lace/src/vm.rs: VirtualMachine                                          *)
(* run() calls itself for a function call; lc_act holds the activations,   *)
(* each with its own code and ip, and lc_stack / lc_calls are the fields   *)
(* `stack` and `call_stack` they share.                                    *)
(***************************************************************************)
LcInit ==
    /\ lc_prog \in LcPrograms
    /\ lc_checks \in BOOLEAN
    /\ lc_constants = LcBytecode(lc_prog).constants
    /\ lc_act = <<[code |-> LcBytecode(lc_prog).chunk, ip |-> 0]>>
    /\ lc_stack = <<>>
    /\ lc_calls = <<EmptyMap>>
    /\ lc_status = "running"
    /\ lc_result = ValueNone
    /\ lc_out = <<>>
    /\ lc_trace = <<>>

LcCode == Last(lc_act).code

LcIp == Last(lc_act).ip

LcInstr == LcCode[LcIp + 1]

LcRunning == lc_status = "running" /\ Len(lc_trace) < MaxSteps

\* `while ip < code.len() { let instruction = &code[ip]; match instruction {`
LcFetch(ops) ==
    /\ LcRunning
    /\ LcIp < Len(LcCode)
    /\ LcInstr.op \in ops
    /\ lc_trace' = Append(lc_trace, [lvl |-> Len(lc_act), ip |-> LcIp,
                                     sp |-> Len(lc_stack), ins |-> LcInstr,
                                     len |-> Len(LcCode), stack |-> lc_stack,
                                     frames |-> lc_calls])
    /\ UNCHANGED <<lc_prog, lc_checks, lc_constants>>
    /\ UNCHANGED <<hlvars, rnvars, opvars, cpvars, plvars>>

\* `ip += 1` at the end of the loop body, or `ip = *idx; continue`
LcGoto(addr) == lc_act' = [lc_act EXCEPT ![Len(lc_act)].ip = addr]

\* `.unwrap()` on an empty stack, `panic!()`, an arithmetic overflow panic
LcPanic ==
    /\ lc_status' = "panic"
    /\ UNCHANGED <<lc_act, lc_stack, lc_calls, lc_result, lc_out>>

\* runtime_error: prints the message and exits the process
LcRuntimeError(stack) ==
    /\ lc_status' = "runtime_error"
    /\ lc_stack' = stack
    /\ UNCHANGED <<lc_act, lc_calls, lc_result, lc_out>>

\* Variant that leaves the frame on the call stack.
PopFrameKept(call_stack) == call_stack

\* `self.call_stack.pop()`
PopFrame(call_stack) == IF Len(call_stack) = 0 THEN call_stack ELSE Front(call_stack)

\* An activation of run() ends with value ret, the operand stack being stack.
\* The outermost one ends the program; an inner one returns into the
\* CallFunction arm of its caller, which pushes ret and steps to ip + 1.
LcFinish(ret, stack) ==
    IF Len(lc_act) = 1
    THEN /\ lc_status' = "ok"
         /\ lc_result' = ret
         /\ lc_stack' = stack
         /\ lc_calls' = PopFrame(lc_calls)
         /\ UNCHANGED <<lc_act, lc_out>>
    ELSE /\ lc_act' = [Front(lc_act) EXCEPT ![Len(lc_act) - 1].ip = @ + 1]
         /\ lc_calls' = PopFrame(lc_calls)
         /\ lc_stack' = Append(stack, ret)
         /\ UNCHANGED <<lc_status, lc_result, lc_out>>

LcLoadConstant ==
    /\ LcFetch({"LoadConstant"})
    /\ lc_stack' = Append(lc_stack, lc_constants[LcInstr.idx + 1])
    /\ LcGoto(LcIp + 1)
    /\ UNCHANGED <<lc_calls, lc_status, lc_result, lc_out>>

\* the innermost frame that binds name, 0 when none does
NearestFrame(call_stack, name) ==
    LET binding == {k \in 1..Len(call_stack) : name \in DOMAIN call_stack[k]} IN
    IF binding = {} THEN 0 ELSE CHOOSE k \in binding : \A other \in binding : other <= k

\* Variant that walks the call stack outwards from the innermost frame and
\* takes the first binding it meets.
LcLoadVariableNearest ==
    /\ LcFetch({"LoadVariable"})
    /\ LET name == lc_constants[LcInstr.idx + 1].v
           k == NearestFrame(lc_calls, name)
       IN IF k # 0
          THEN /\ lc_stack' = Append(lc_stack, lc_calls[k][name])
               /\ LcGoto(LcIp + 1)
               /\ UNCHANGED <<lc_calls, lc_status, lc_result, lc_out>>
          ELSE LcRuntimeError(lc_stack)

\* locals of the current frame first, then the globals (the first frame)
LcLoadVariable ==
    /\ LcFetch({"LoadVariable"})
    /\ LET name == lc_constants[LcInstr.idx + 1].v IN
       IF name \in DOMAIN Last(lc_calls)
       THEN /\ lc_stack' = Append(lc_stack, Last(lc_calls)[name])
            /\ LcGoto(LcIp + 1)
            /\ UNCHANGED <<lc_calls, lc_status, lc_result, lc_out>>
       ELSE IF name \in DOMAIN lc_calls[1]
       THEN /\ lc_stack' = Append(lc_stack, lc_calls[1][name])
            /\ LcGoto(LcIp + 1)
            /\ UNCHANGED <<lc_calls, lc_status, lc_result, lc_out>>
       ELSE LcRuntimeError(lc_stack)

\* Variant that writes the binding into the global frame when that frame
\* already has the name.
LcAssignVariableGlobal ==
    /\ LcFetch({"AssignVariable"})
    /\ IF Len(lc_stack) = 0 THEN LcPanic
       ELSE LET name == lc_constants[LcInstr.idx + 1].v
                k == IF name \in DOMAIN lc_calls[1] THEN 1 ELSE Len(lc_calls)
            IN /\ lc_calls' = [lc_calls EXCEPT ![k] = MapInsert(@, name, Last(lc_stack))]
               /\ lc_stack' = Front(lc_stack)
               /\ LcGoto(LcIp + 1)
               /\ UNCHANGED <<lc_status, lc_result, lc_out>>

LcAssignVariable ==
    /\ LcFetch({"AssignVariable"})
    /\ IF Len(lc_stack) = 0 THEN LcPanic
       ELSE /\ lc_calls' = [lc_calls EXCEPT ![Len(lc_calls)] =
                                MapInsert(@, lc_constants[LcInstr.idx + 1].v, Last(lc_stack))]
            /\ lc_stack' = Front(lc_stack)
            /\ LcGoto(LcIp + 1)
            /\ UNCHANGED <<lc_status, lc_result, lc_out>>

\* Variant without the reversal: the parameters take their values in
\* declaration order, the first parameter popping the last argument.
ParameterOrderDeclared(parameters) == parameters

\* `parameters.reverse()`: the order in which the parameters take their values
ParameterOrder(parameters) == Reverse(parameters)

\* `for parameter in parameters.iter() { locals.insert(parameter, stack.pop().unwrap()) }`
RECURSIVE BindParameters(_, _, _)
BindParameters(parameters, stack, locals) ==
    IF Len(parameters) = 0 THEN [stack |-> stack, locals |-> locals]
    ELSE BindParameters(Tail(parameters), Front(stack),
                        MapInsert(locals, Head(parameters), Last(stack)))

LcCallFunction ==
    /\ LcFetch({"CallFunction"})
    /\ IF Len(lc_stack) = 0 THEN LcPanic
       ELSE LET function == Last(lc_stack)
                rest == Front(lc_stack)
            IN IF function.t = "Function"
               THEN IF Len(rest) < Len(function.v.parameters) THEN LcPanic
                    ELSE LET bound == BindParameters(ParameterOrder(function.v.parameters),
                                                     rest, EmptyMap) IN
                         /\ lc_calls' = Append(lc_calls, bound.locals)
                         /\ lc_stack' = bound.stack
                         /\ lc_act' = Append(lc_act, [code |-> function.v.code, ip |-> 0])
                         /\ UNCHANGED <<lc_status, lc_result, lc_out>>
               ELSE LcRuntimeError(rest)

\* the arguments are popped and printed; nothing is pushed
LcCallPrimitiveFunction ==
    /\ LcFetch({"CallPrimitiveFunction"})
    /\ LET len == LcInstr.len
           name == lc_constants[LcInstr.name + 1].v
       IN IF Len(lc_stack) < len THEN LcPanic
          ELSE LET arguments == SubSeq(lc_stack, Len(lc_stack) - len + 1, Len(lc_stack))
                   rest == DropLast(lc_stack, len)
               IN IF name = "writeln!"
                  THEN /\ lc_out' = Append(lc_out, arguments)
                       /\ lc_stack' = rest
                       /\ LcGoto(LcIp + 1)
                       /\ UNCHANGED <<lc_calls, lc_status, lc_result>>
                  ELSE IF name = "exit!"
                  THEN /\ lc_status' = "exit"
                       /\ lc_stack' = rest
                       /\ UNCHANGED <<lc_act, lc_calls, lc_result, lc_out>>
                  ELSE LcRuntimeError(rest)

\* Variant that reads the returned value and leaves it on the stack.
LcReturnPeek ==
    /\ LcFetch({"Return"})
    /\ IF Len(lc_stack) = 0
       THEN /\ lc_status' = "panic"
            /\ lc_calls' = PopFrame(lc_calls)
            /\ UNCHANGED <<lc_act, lc_stack, lc_result, lc_out>>
       ELSE LcFinish(Last(lc_stack), lc_stack)

LcReturn ==
    /\ LcFetch({"Return"})
    /\ IF Len(lc_stack) = 0
       THEN /\ lc_status' = "panic"
            /\ lc_calls' = PopFrame(lc_calls)
            /\ UNCHANGED <<lc_act, lc_stack, lc_result, lc_out>>
       ELSE LcFinish(Last(lc_stack), Front(lc_stack))

\* Variant in which ReturnNone does not leave the loop.
LcReturnNoneGoesOn ==
    /\ LcFetch({"ReturnNone"})
    /\ LcGoto(LcIp + 1)
    /\ UNCHANGED <<lc_stack, lc_calls, lc_status, lc_result, lc_out>>

LcReturnNone ==
    /\ LcFetch({"ReturnNone"})
    /\ LcFinish(ValueNone, lc_stack)

\* the loop ends at ip >= code.len(): `self.call_stack.pop(); Value::None`
LcEnd ==
    /\ LcRunning
    /\ LcIp >= Len(LcCode)
    /\ lc_trace' = Append(lc_trace, [lvl |-> Len(lc_act), ip |-> LcIp,
                                     sp |-> Len(lc_stack), ins |-> Ins("end"),
                                     len |-> Len(LcCode), stack |-> lc_stack,
                                     frames |-> lc_calls])
    /\ UNCHANGED <<lc_prog, lc_checks, lc_constants>>
    /\ UNCHANGED <<hlvars, rnvars, opvars, cpvars, plvars>>
    /\ LcFinish(ValueNone, lc_stack)

\* Variant that takes the first value popped as the left operand.
LcBinarySwapped ==
    /\ LcFetch(LcBinaryOps)
    /\ IF Len(lc_stack) < 2 THEN LcPanic
       ELSE LET a == lc_stack[Len(lc_stack)]
                b == lc_stack[Len(lc_stack) - 1]
                res == LcOperate(LcInstr.op, a, b, lc_checks)
            IN IF ~res.ok THEN LcPanic
               ELSE /\ lc_stack' = Append(DropLast(lc_stack, 2), res.val)
                    /\ LcGoto(LcIp + 1)
                    /\ UNCHANGED <<lc_calls, lc_status, lc_result, lc_out>>

LcBinary ==
    /\ LcFetch(LcBinaryOps)
    /\ IF Len(lc_stack) < 2 THEN LcPanic
       ELSE LET b == lc_stack[Len(lc_stack)]
                a == lc_stack[Len(lc_stack) - 1]
                res == LcOperate(LcInstr.op, a, b, lc_checks)
            IN IF ~res.ok THEN LcPanic
               ELSE /\ lc_stack' = Append(DropLast(lc_stack, 2), res.val)
                    /\ LcGoto(LcIp + 1)
                    /\ UNCHANGED <<lc_calls, lc_status, lc_result, lc_out>>

LcUnary ==
    /\ LcFetch(LcUnaryOps)
    /\ IF Len(lc_stack) = 0 THEN LcPanic
       ELSE LET res == LcUnaryOperate(LcInstr.op, Last(lc_stack), lc_checks) IN
            IF ~res.ok THEN LcPanic
            ELSE /\ lc_stack' = Append(Front(lc_stack), res.val)
                 /\ LcGoto(LcIp + 1)
                 /\ UNCHANGED <<lc_calls, lc_status, lc_result, lc_out>>

LcJump ==
    /\ LcFetch({"Jump"})
    /\ LcGoto(LcInstr.addr)
    /\ UNCHANGED <<lc_stack, lc_calls, lc_status, lc_result, lc_out>>

\* Variant of JumpT that reads the condition and leaves it on the stack.
LcJumpTPeek ==
    /\ LcFetch({"JumpT"})
    /\ IF Len(lc_stack) = 0 \/ IsPrivate(Last(lc_stack)) THEN LcPanic
       ELSE /\ lc_stack' = lc_stack
            /\ LcGoto(IF istruthy(Last(lc_stack)) THEN LcInstr.addr ELSE LcIp + 1)
            /\ UNCHANGED <<lc_calls, lc_status, lc_result, lc_out>>

LcJumpT ==
    /\ LcFetch({"JumpT"})
    /\ IF Len(lc_stack) = 0 \/ IsPrivate(Last(lc_stack)) THEN LcPanic
       ELSE /\ lc_stack' = Front(lc_stack)
            /\ LcGoto(IF istruthy(Last(lc_stack)) THEN LcInstr.addr ELSE LcIp + 1)
            /\ UNCHANGED <<lc_calls, lc_status, lc_result, lc_out>>

LcJumpF ==
    /\ LcFetch({"JumpF"})
    /\ IF Len(lc_stack) = 0 \/ IsPrivate(Last(lc_stack)) THEN LcPanic
       ELSE /\ lc_stack' = Front(lc_stack)
            /\ LcGoto(IF ~istruthy(Last(lc_stack)) THEN LcInstr.addr ELSE LcIp + 1)
            /\ UNCHANGED <<lc_calls, lc_status, lc_result, lc_out>>

LcNext ==
    \/ LcLoadConstant
    \/ LcLoadVariable
    \/ LcAssignVariable
    \/ LcCallFunction
    \/ LcCallPrimitiveFunction
    \/ LcReturn
    \/ LcReturnNone
    \/ LcEnd
    \/ LcBinary
    \/ LcUnary
    \/ LcJump
    \/ LcJumpT
    \/ LcJumpF

(***************************************************************************)
(* src/vm/opcode.rs: Value, and src/vm/arithmetic.rs with its later copy   *)
(* src/vm/value/operation.rs: `operate` on the integer and string values.  *)
(* An operation returns a value, raises (Data::raise prints the message    *)
(* and exits the process) or panics.                                       *)
(***************************************************************************)
VmInteger(int) == [t |-> "Integer", v |-> int]

VmString(str) == [t |-> "String", v |-> str]

VmBool(bool) == [t |-> "Bool", v |-> bool]

VmNone == [t |-> "None", v |-> 0]

Gives(val) == [kind |-> "value", val |-> val, msg |-> ""]

Raises(msg) == [kind |-> "raise", val |-> VmNone, msg |-> msg]

Aborts == [kind |-> "panic", val |-> VmNone, msg |-> ""]

\* Value::Float(f32), written as twice its value: floats are the multiples
\* of one half that fit, which the literals 0.5, 1.0, 1.5 .. give
VmFloat(twice) == [t |-> "Float", v |-> twice]

VmArray(list) == [t |-> "Array", v |-> list]

\* `n as f32` for 0 <= n: the nearest number with a 24-bit mantissa, ties to
\* the even mantissa
RECURSIVE Ulp(_, _)
Ulp(n, ulp) == IF n \div ulp < 16777216 THEN ulp ELSE Ulp(n, 2 * ulp)

NearestF32(n) ==
    LET ulp == Ulp(n, 1)
        q == n \div ulp
        r == n % ulp
    IN IF 2 * r < ulp \/ (2 * r = ulp /\ q % 2 = 0) THEN q * ulp ELSE (q + 1) * ulp

\* `*av as f32`, as a float of this model (twice the value)
as_f32(int) == IF int < 0 THEN -(2 * NearestF32(-int)) ELSE 2 * NearestF32(int)

get_type(value) ==
    CASE value.t = "String" -> "string"
      [] value.t = "Integer" -> "integer"
      [] value.t = "Float" -> "float"
      [] value.t = "Array" -> "array"
      [] value.t = "Bool" -> "bool"
      [] value.t = "None" -> "none"

\* Variant of the message that names neither the operator nor the operands.
unsupported_operation_unnamed(a, b, o) == "Unsupported operation"

unsupported_operation(a, b, o) ==
    "Unsupported operation [" \o get_type(a) \o " " \o o \o " " \o get_type(b) \o "]"

\* the outcome of str::repeat as a value of this VM
VmRepeat(str, count) ==
    LET res == repeat(str, count) IN
    IF res.ok THEN Gives(VmString(res.val.v)) ELSE Aborts

\* Variant of add with `a + b` in place of checked_add, overflow checks off.
add_wrapping(a, b) ==
    CASE a.t = "String" ->
            IF b.t = "String" THEN Gives(VmString(a.v \o b.v)) ELSE Raises(unsupported_operation(a, b, "+"))
      [] a.t = "Integer" ->
            IF b.t = "Integer" THEN Gives(VmInteger(wrapping_add(a.v, b.v)))
            ELSE Raises(unsupported_operation(a, b, "+"))
      [] OTHER -> Raises(unsupported_operation(a, b, "+"))

add(a, b) ==
    CASE a.t = "String" ->
            IF b.t = "String" THEN Gives(VmString(a.v \o b.v)) ELSE Raises(unsupported_operation(a, b, "+"))
      [] a.t = "Integer" ->
            IF b.t = "Integer"
            THEN LET int == checked_add(a.v, b.v) IN
                 IF int.some THEN Gives(VmInteger(int.val))
                 ELSE Raises("Integer addition resulted in overflow")
            ELSE Raises(unsupported_operation(a, b, "+"))
      [] OTHER -> Raises(unsupported_operation(a, b, "+"))

sub(a, b) ==
    CASE a.t = "Integer" ->
            IF b.t = "Integer"
            THEN LET int == checked_sub(a.v, b.v) IN
                 IF int.some THEN Gives(VmInteger(int.val))
                 ELSE Raises("Integer subtraction resulted in overflow")
            ELSE Raises(unsupported_operation(a, b, "-"))
      [] OTHER -> Raises(unsupported_operation(a, b, "-"))

mul(a, b) ==
    CASE a.t = "String" ->
            IF b.t = "Integer" THEN VmRepeat(a.v, as_usize(b.v))
            ELSE Raises(unsupported_operation(a, b, "*"))
      [] a.t = "Integer" ->
            IF b.t = "Integer"
            THEN LET int == checked_mul(a.v, b.v) IN
                 IF int.some THEN Gives(VmInteger(int.val))
                 ELSE Raises("Integer multiplication resulted in overflow")
            ELSE Raises(unsupported_operation(a, b, "*"))
      [] OTHER -> Raises(unsupported_operation(a, b, "*"))

\* the float arms of div and rem lie outside the integer fragment
div(a, b) ==
    CASE a.t = "Integer" /\ b.t = "Integer" ->
            LET int == checked_div(a.v, b.v) IN
            IF int.some THEN Gives(VmInteger(int.val))
            ELSE Raises("Integer division resulted in overflow")
      [] a.t \notin {"Integer", "Float"} \/ b.t \notin {"Integer", "Float"} ->
            Raises(unsupported_operation(a, b, "/"))

rem(a, b) ==
    CASE a.t = "Integer" /\ b.t = "Integer" ->
            LET int == checked_rem(a.v, b.v) IN
            IF int.some THEN Gives(VmInteger(int.val))
            ELSE Raises("Integer remainder resulted in overflow")
      [] a.t \notin {"Integer", "Float"} \/ b.t \notin {"Integer", "Float"} ->
            Raises(unsupported_operation(a, b, "%"))

\* `let mut ret = num; for _ in 1..exp { ret = ret.checked_mul(num)? }`: the
\* range 1..exp is empty for exp <= 1
RECURSIVE ExponentiateLoop(_, _, _)
ExponentiateLoop(ret, num, left) ==
    IF left <= 0 THEN Some(ret)
    ELSE LET iret == checked_mul(ret, num) IN
         IF iret.some THEN ExponentiateLoop(iret.val, num, left - 1) ELSE None

\* Variant whose product starts at 1: `for _ in 0..exp`.
exponentiate_from_one(num, exp) == ExponentiateLoop(1, num, exp)

exponentiate(num, exp) == ExponentiateLoop(num, num, exp - 1)

pow(a, b) ==
    CASE a.t = "Integer" /\ b.t = "Integer" ->
            LET int == exponentiate(a.v, b.v) IN
            IF int.some THEN Gives(VmInteger(int.val))
            ELSE Raises("Integer exponentiation resulted in overflow")
      [] OTHER -> Raises(unsupported_operation(a, b, "%"))

eq(a, b) == Gives(VmBool(a = b))

neq(a, b) == Gives(VmBool(a # b))

\* the four ordering functions: Integer with Integer, Float with Float, and
\* the Integer operand cast `as f32` when the other one is a Float
more(a, b) ==
    CASE a.t = "Integer" /\ b.t = "Integer" -> Gives(VmBool(a.v > b.v))
      [] a.t = "Integer" /\ b.t = "Float" -> Gives(VmBool(as_f32(a.v) > b.v))
      [] a.t = "Float" /\ b.t = "Float" -> Gives(VmBool(a.v > b.v))
      [] a.t = "Float" /\ b.t = "Integer" -> Gives(VmBool(a.v > as_f32(b.v)))
      [] OTHER -> Raises(unsupported_operation(a, b, ">"))

less(a, b) ==
    CASE a.t = "Integer" /\ b.t = "Integer" -> Gives(VmBool(a.v < b.v))
      [] a.t = "Integer" /\ b.t = "Float" -> Gives(VmBool(as_f32(a.v) < b.v))
      [] a.t = "Float" /\ b.t = "Float" -> Gives(VmBool(a.v < b.v))
      [] a.t = "Float" /\ b.t = "Integer" -> Gives(VmBool(a.v < as_f32(b.v)))
      [] OTHER -> Raises(unsupported_operation(a, b, "<"))

more_than(a, b) ==
    CASE a.t = "Integer" /\ b.t = "Integer" -> Gives(VmBool(a.v >= b.v))
      [] a.t = "Integer" /\ b.t = "Float" -> Gives(VmBool(as_f32(a.v) >= b.v))
      [] a.t = "Float" /\ b.t = "Float" -> Gives(VmBool(a.v >= b.v))
      [] a.t = "Float" /\ b.t = "Integer" -> Gives(VmBool(a.v >= as_f32(b.v)))
      [] OTHER -> Raises(unsupported_operation(a, b, ">="))

less_than(a, b) ==
    CASE a.t = "Integer" /\ b.t = "Integer" -> Gives(VmBool(a.v <= b.v))
      [] a.t = "Integer" /\ b.t = "Float" -> Gives(VmBool(as_f32(a.v) <= b.v))
      [] a.t = "Float" /\ b.t = "Float" -> Gives(VmBool(a.v <= b.v))
      [] a.t = "Float" /\ b.t = "Integer" -> Gives(VmBool(a.v <= as_f32(b.v)))
      [] OTHER -> Raises(unsupported_operation(a, b, "<="))

\* The opcodes of the integer and string fragment that `operate` dispatches;
\* Pow and the float arithmetic are not part of it.
OperateCodes == {"Add", "Sub", "Mul", "Equal", "NotEqual", "More", "Less"}

\* the ordering opcodes, which are offered float operands as well
OrderingCodes == {"More", "Less", "MoreOrEqual", "LessOrEqual"}

operate(a, b, code) ==
    CASE code = "Add" -> add(a, b)
      [] code = "Sub" -> sub(a, b)
      [] code = "Mul" -> mul(a, b)
      [] code = "Div" -> div(a, b)
      [] code = "Mod" -> rem(a, b)
      [] code = "Pow" -> pow(a, b)
      [] code = "Equal" -> eq(a, b)
      [] code = "NotEqual" -> neq(a, b)
      [] code = "More" -> more(a, b)
      [] code = "Less" -> less(a, b)
      [] code = "MoreOrEqual" -> more_than(a, b)
      [] code = "LessOrEqual" -> less_than(a, b)

VmSampleValues ==
    {VmInteger(n) : n \in I32Samples} \cup {VmInteger(n) : n \in CountSamples}
        \cup {VmString(s) : s \in StringSamples} \cup {VmBool(TRUE), VmNone}

\* right operands offered to a string: the repetition counts stay small
VmStringOperands ==
    {VmInteger(n) : n \in CountSamples} \cup {VmString(s) : s \in StringSamples}
        \cup {VmBool(TRUE), VmNone}

\* operands of the ordering opcodes: integers below and above 2^24, where
\* `as f32` stops being exact, floats (-1.5, 0.0, 0.5, 1.0, 16777216.0) and one
\* value of every other kind
VmOrderValues ==
    {VmInteger(n) : n \in {-16777217, -2, 0, 1, 16777215, 16777216, 16777217, 16777219}}
        \cup {VmFloat(twice) : twice \in {-3, 0, 1, 2, 33554432}}
        \cup {VmString("x"), VmBool(TRUE), VmNone, VmArray(<<>>)}

\* the operands of Div and Mod
DivisionCodes == {"Div", "Mod"}

VmDividends ==
    {VmInteger(n) : n \in DividendSamples} \cup {VmString("x"), VmBool(TRUE), VmNone}

VmDivisors ==
    {VmInteger(n) : n \in DivisorSamples} \cup {VmString("x"), VmBool(TRUE), VmNone}

\* the operands of Pow: bases whose powers stay in range, leave it at the
\* exponents 2, 3, 31 and 32, or alternate in sign; exponents from 0 on, and
\* a negative one
VmBases ==
    {VmInteger(n) : n \in {I32Min, -46341, -2, -1, 0, 1, 2, 3, 1290, 1291, 46340, 46341, I32Max}}
        \cup {VmFloat(1), VmString("x"), VmBool(TRUE), VmNone}

VmExponents ==
    {VmInteger(n) : n \in {-1, 0, 1, 2, 3, 30, 31, 32}} \cup {VmFloat(2), VmString("x"), VmNone}

\* `operate` as a function of its arguments: Init draws them, OpApply calls it
OpInit ==
    /\ \/ /\ op_a \in VmSampleValues
          /\ op_b \in IF op_a.t = "String" THEN VmStringOperands ELSE VmSampleValues
          /\ op_code \in OperateCodes
       \/ /\ op_a \in VmOrderValues
          /\ op_b \in VmOrderValues
          /\ op_code \in OrderingCodes
       \/ /\ op_a \in VmDividends
          /\ op_b \in VmDivisors
          /\ op_code \in DivisionCodes
       \/ /\ op_a \in VmBases
          /\ op_b \in VmExponents
          /\ op_code = "Pow"
    /\ op_res = [kind |-> "none", val |-> VmNone, msg |-> ""]

OpApply ==
    /\ op_res.kind = "none"
    /\ op_res' = operate(op_a, op_b, op_code)
    /\ UNCHANGED <<op_a, op_b, op_code>>
    /\ UNCHANGED <<hlvars, lcvars, rnvars, cpvars, plvars>>

OpNext == OpApply

(***************************************************************************)
(* src/vm/mod.rs: run(function, variables, global_funcs)                   *)
(* run() calls itself for CallFunction; rn_act holds the invocations, each *)
(* with its CodeObject, its position in `for opcode in function.code`, its *)
(* own operand stack and its own variable map.                             *)
(***************************************************************************)
CodeObject(code, constants, parameters, functions) ==
    [code |-> code, constants |-> constants, parameters |-> parameters, functions |-> functions]

OpCode(op) == [op |-> op, idx |-> 0, len |-> 0]

OpCodeIdx(op, idx) == [op |-> op, idx |-> idx, len |-> 0]

OpCodeCall(op, idx, len) == [op |-> op, idx |-> idx, len |-> len]

\* constants shared by the generated code objects (0-based indices in the code)
RnConstants ==
    <<VmString("f"), VmString("g"), VmString("r"), VmString("t"), VmString("writeln"),
      VmInteger(1), VmString("p1"), VmString("p2"), VmString("p3"),
      VmInteger(11), VmInteger(12), VmInteger(13), VmString("h"), VmString("u")>>

RnIndex(value) == (CHOOSE i \in 1..Len(RnConstants) : RnConstants[i] = value) - 1

RECURSIVE LoadArguments(_, _)
LoadArguments(i, argc) ==
    IF i > argc THEN <<>>
    ELSE <<OpCodeIdx("LoadConst", RnIndex(VmInteger(ArgValues[i])))>> \o LoadArguments(i + 1, argc)

\* r = name(11, .., 1argc)
RnCallCode(name, argc) ==
    LoadArguments(1, argc)
        \o <<OpCodeCall("CallFunction", RnIndex(VmString(name)), argc),
             OpCodeIdx("AssignVar", RnIndex(VmString("r")))>>

\* fn(p1, .., pn) { t = p1 + 1; return t }   (t = 1 + 1 without parameters)
RnLeaf(nparams) ==
    CodeObject(<<IF nparams = 0 THEN OpCodeIdx("LoadConst", RnIndex(VmInteger(1)))
                 ELSE OpCodeIdx("LoadVariable", RnIndex(VmString("p1"))),
                 OpCodeIdx("LoadConst", RnIndex(VmInteger(1))),
                 OpCode("Add"),
                 OpCodeIdx("AssignVar", RnIndex(VmString("t"))),
                 OpCodeIdx("LoadVariable", RnIndex(VmString("t"))),
                 OpCode("Return")>>,
               RnConstants, SubSeq(ParamNames, 1, nparams), EmptyMap)

\* fn(p1, .., pn) { writeln(true) }: a function that is told from RnLeaf by
\* what it prints
RnDecoy(nparams) ==
    CodeObject(<<OpCodeIdx("LoadBuiltinValue", 1),
                 OpCodeCall("CallMacro", RnIndex(VmString("writeln")), 1)>>,
               RnConstants, SubSeq(ParamNames, 1, nparams), EmptyMap)

RnTail ==
    <<OpCodeIdx("LoadBuiltinValue", 1),
      OpCodeCall("CallMacro", RnIndex(VmString("writeln")), 1),
      OpCodeIdx("LoadVariable", RnIndex(VmString("u")))>>

RnProgram(kind, nparams, argc) == [kind |-> kind, nparams |-> nparams, argc |-> argc]

\* the opcodes of the OpCode set that take two operands
BinaryOpCodes ==
    {"Add", "Sub", "Mul", "Div", "Mod", "Pow", "Equal", "NotEqual", "More", "Less",
     "MoreOrEqual", "LessOrEqual"}

\* operands of the programs that execute one binary opcode
RnOperands == {VmInteger(-2), VmInteger(0), VmInteger(3), VmString("x")}

\* the program `r = a <op> b`, run with the value 9 left on the stack
RnBinaryProgram(op, a, b) ==
    [kind |-> "binary", nparams |-> 0, argc |-> 0, op |-> op, a |-> a, b |-> b]

RnPrograms ==
    {RnBinaryProgram(op, a, b) : op \in BinaryOpCodes, a \in RnOperands, b \in RnOperands}
    \cup
    {RnProgram(kind, nparams, argc) :
        kind \in {"direct", "global", "local", "missing"}, nparams \in 0..3, argc \in 0..3}
    \cup {RnProgram(kind, 0, argc) : kind \in {"macro", "nomacro"}, argc \in 0..3}
    \cup {RnProgram(kind, nparams, nparams) : kind \in {"both", "deep"}, nparams \in 0..3}

\* "direct"   main calls f                      (f in main.functions)
\* "global"   main calls f, f calls g           (g in main.functions only)
\* "local"    main calls f, f calls g           (g in f.functions)
\* "missing"  main calls h, which no code object defines
\* "both"     main calls f, f calls g           (g in f.functions, and another
\*                                              g in main.functions)
\* "deep"     main calls f, f calls g, g calls h (h in main.functions, and
\*                                              another h in f.functions)
\* "macro"    main is writeln(11, .., 1argc)
\* "nomacro"  main is h(11, .., 1argc), h being no macro
RnMain(p) ==
    CASE p.kind = "direct" ->
            CodeObject(RnCallCode("f", p.argc) \o RnTail, RnConstants, <<>>,
                       MapInsert(EmptyMap, "f", RnLeaf(p.nparams)))
      [] p.kind = "global" ->
            CodeObject(RnCallCode("f", 0) \o RnTail, RnConstants, <<>>,
                       MapInsert(MapInsert(EmptyMap, "g", RnLeaf(p.nparams)), "f",
                                 CodeObject(RnCallCode("g", p.argc), RnConstants, <<>>, EmptyMap)))
      [] p.kind = "local" ->
            CodeObject(RnCallCode("f", 0) \o RnTail, RnConstants, <<>>,
                       MapInsert(EmptyMap, "f",
                                 CodeObject(RnCallCode("g", p.argc), RnConstants, <<>>,
                                            MapInsert(EmptyMap, "g", RnLeaf(p.nparams)))))
      [] p.kind = "missing" ->
            CodeObject(RnCallCode("h", p.argc) \o RnTail, RnConstants, <<>>,
                       MapInsert(EmptyMap, "f", RnLeaf(p.nparams)))
      [] p.kind = "both" ->
            CodeObject(RnCallCode("f", 0) \o RnTail, RnConstants, <<>>,
                       MapInsert(MapInsert(EmptyMap, "g", RnDecoy(p.nparams)), "f",
                                 CodeObject(RnCallCode("g", p.argc), RnConstants, <<>>,
                                            MapInsert(EmptyMap, "g", RnLeaf(p.nparams)))))
      [] p.kind = "deep" ->
            CodeObject(RnCallCode("f", 0) \o RnTail, RnConstants, <<>>,
                       MapInsert(MapInsert(EmptyMap, "h", RnLeaf(p.nparams)), "f",
                                 CodeObject(RnCallCode("g", 0), RnConstants, <<>>,
                                            MapInsert(MapInsert(EmptyMap, "h", RnDecoy(p.nparams)),
                                                      "g",
                                                      CodeObject(RnCallCode("h", p.argc),
                                                                 RnConstants, <<>>, EmptyMap)))))
      [] p.kind = "binary" ->
            CodeObject(<<OpCodeIdx("LoadConst", 3), OpCodeIdx("LoadConst", 0),
                         OpCodeIdx("LoadConst", 1), OpCode(p.op), OpCodeIdx("AssignVar", 2)>>,
                       <<p.a, p.b, VmString("r"), VmInteger(9)>>, <<>>, EmptyMap)
      [] p.kind \in {"macro", "nomacro"} ->
            CodeObject(LoadArguments(1, p.argc)
                           \o <<OpCodeCall("CallMacro",
                                           RnIndex(VmString(IF p.kind = "macro" THEN "writeln"
                                                            ELSE "h")),
                                           p.argc)>>,
                       RnConstants, <<>>, EmptyMap)

Invocation(function, variables) ==
    [function |-> function, pc |-> 0, stack |-> <<>>, variables |-> variables]

RnInit ==
    /\ rn_prog \in RnPrograms
    /\ rn_act = <<Invocation(RnMain(rn_prog), EmptyMap)>>
    /\ rn_status = "running"
    /\ rn_out = <<>>
    /\ rn_maps = <<>>
    /\ rn_trace = <<>>

RnTop == Last(rn_act)

RnFunction == RnTop.function

RnOpcode == RnFunction.code[RnTop.pc + 1]

\* `global_functions`: the functions of the outermost code object
global_functions == rn_act[1].function.functions

RnRunning == rn_status = "running" /\ Len(rn_trace) < MaxSteps

\* `for opcode in function.code { match opcode {`
RnFetch(ops) ==
    /\ RnRunning
    /\ RnTop.pc < Len(RnFunction.code)
    /\ RnOpcode.op \in ops
    /\ rn_trace' = Append(rn_trace, [lvl |-> Len(rn_act), pc |-> RnTop.pc, opcode |-> RnOpcode])
    /\ UNCHANGED rn_prog
    /\ UNCHANGED <<hlvars, lcvars, opvars, cpvars, plvars>>

\* the loop moves on to the next opcode, the invocation's stack being stack
RnStep(stack) ==
    /\ rn_act' = [rn_act EXCEPT ![Len(rn_act)].pc = @ + 1, ![Len(rn_act)].stack = stack]
    /\ UNCHANGED <<rn_status, rn_out, rn_maps>>

\* Data::raise / raise_internal: print and exit(0); `.unwrap()`: panic
RnStop(status) ==
    /\ rn_status' = status
    /\ UNCHANGED <<rn_act, rn_out, rn_maps>>

RnLoadConst ==
    /\ RnFetch({"LoadConst"})
    /\ RnStep(Append(RnTop.stack, RnFunction.constants[RnOpcode.idx + 1]))

RnLoadVariable ==
    /\ RnFetch({"LoadVariable"})
    /\ LET name == RnFunction.constants[RnOpcode.idx + 1] IN
       IF name.t # "String" THEN RnStep(RnTop.stack)
       ELSE IF name.v \in DOMAIN RnTop.variables
       THEN RnStep(Append(RnTop.stack, RnTop.variables[name.v]))
       ELSE RnStop("raise")

RnAssignVar ==
    /\ RnFetch({"AssignVar"})
    /\ LET name == RnFunction.constants[RnOpcode.idx + 1] IN
       IF name.t # "String" THEN RnStep(RnTop.stack)
       ELSE IF Len(RnTop.stack) = 0 THEN RnStop("panic")
       ELSE /\ rn_act' = [rn_act EXCEPT
                            ![Len(rn_act)].pc = @ + 1,
                            ![Len(rn_act)].stack = Front(@),
                            ![Len(rn_act)].variables = MapInsert(@, name.v, Last(RnTop.stack))]
            /\ UNCHANGED <<rn_status, rn_out, rn_maps>>

RnLoadBuiltinValue ==
    /\ RnFetch({"LoadBuiltinValue"})
    /\ CASE RnOpcode.idx = 0 -> RnStep(Append(RnTop.stack, VmNone))
         [] RnOpcode.idx = 1 -> RnStep(Append(RnTop.stack, VmBool(TRUE)))
         [] RnOpcode.idx = 2 -> RnStep(Append(RnTop.stack, VmBool(FALSE)))
         [] OTHER -> RnStop("raise")

\* the opcodes of the arm that calls arithmetic::operate; the shifts, which
\* operate has no arm for, are left out
RnOperateCodes ==
    {"Add", "Sub", "Mul", "Div", "Mod", "Pow", "Equal", "NotEqual", "More", "Less",
     "MoreOrEqual"}

RnOperate ==
    /\ RnFetch(RnOperateCodes)
    /\ IF Len(RnTop.stack) < 2 THEN RnStop("panic")
       ELSE LET b == RnTop.stack[Len(RnTop.stack)]
                a == RnTop.stack[Len(RnTop.stack) - 1]
                res == operate(a, b, RnOpcode.op)
            IN CASE res.kind = "value" -> RnStep(Append(DropLast(RnTop.stack, 2), res.val))
                 [] res.kind = "raise" -> RnStop("raise")
                 [] res.kind = "panic" -> RnStop("panic")

RnCallMacro ==
    /\ RnFetch({"CallMacro"})
    /\ LET name == RnFunction.constants[RnOpcode.idx + 1]
           arg_len == RnOpcode.len
       IN IF name.t # "String" THEN RnStop("raise")
          ELSE IF Len(RnTop.stack) < arg_len THEN RnStop("panic")
          ELSE IF name.v # "writeln" THEN RnStop("raise")
          ELSE /\ rn_out' = Append(rn_out, SubSeq(RnTop.stack, Len(RnTop.stack) - arg_len + 1,
                                                  Len(RnTop.stack)))
               /\ rn_act' = [rn_act EXCEPT
                               ![Len(rn_act)].pc = @ + 1,
                               ![Len(rn_act)].stack = Append(DropLast(@, arg_len), VmNone)]
               /\ UNCHANGED <<rn_status, rn_maps>>

\* Variant that looks into global_functions first.
ResolveGlobalFirst(function, name) ==
    IF name \in DOMAIN global_functions THEN [found |-> TRUE, func |-> global_functions[name]]
    ELSE IF name \in DOMAIN function.functions
    THEN [found |-> TRUE, func |-> function.functions[name]]
    ELSE [found |-> FALSE, func |-> function]

\* function.functions first, then global_functions
Resolve(function, name) ==
    IF name \in DOMAIN function.functions THEN [found |-> TRUE, func |-> function.functions[name]]
    ELSE IF name \in DOMAIN global_functions THEN [found |-> TRUE, func |-> global_functions[name]]
    ELSE [found |-> FALSE, func |-> function]

\* Variant without the arity check: every call goes on to bind and run.
ArityUnchecked(arguments, func) == FALSE

\* `if arguments.len() != func.parameters.len()`
ArityMismatch(arguments, func) == Len(arguments) # Len(func.parameters)

\* `for (name, value) in func.parameters.iter().zip(arguments) { args_map.insert(name, value) }`
RECURSIVE Zip(_, _, _)
Zip(parameters, arguments, args_map) ==
    IF Len(parameters) = 0 \/ Len(arguments) = 0 THEN args_map
    ELSE Zip(Tail(parameters), Tail(arguments),
             MapInsert(args_map, Head(parameters), Head(arguments)))

RnCallFunction ==
    /\ RnFetch({"CallFunction"})
    /\ LET name == RnFunction.constants[RnOpcode.idx + 1]
           arg_len == RnOpcode.len
       IN IF name.t # "String" THEN RnStop("raise")
          ELSE IF Len(RnTop.stack) < arg_len THEN RnStop("panic")
          ELSE LET arguments == SubSeq(RnTop.stack, Len(RnTop.stack) - arg_len + 1,
                                       Len(RnTop.stack))
                   resolved == Resolve(RnFunction, name.v)
               IN IF ~resolved.found THEN RnStop("raise")
                  ELSE IF ArityMismatch(arguments, resolved.func) THEN RnStop("raise")
                  ELSE LET args_map == Zip(resolved.func.parameters, arguments, EmptyMap) IN
                       /\ rn_maps' = Append(rn_maps, args_map)
                       /\ rn_act' = Append([rn_act EXCEPT ![Len(rn_act)].stack =
                                                DropLast(@, arg_len)],
                                           Invocation(resolved.func, args_map))
                       /\ UNCHANGED <<rn_status, rn_out>>

\* `_ => {}`: every opcode without an arm of its own, Return among them
RnOther ==
    /\ RnFetch({"Return", "ReturnNone", "LessOrEqual", "FormatString", "BuildList", "ConvertTo"})
    /\ RnStep(RnTop.stack)

\* the loop is over: `return Value::None`, which the caller's CallFunction arm
\* pushes before it moves on
RnEnd ==
    /\ RnRunning
    /\ RnTop.pc >= Len(RnFunction.code)
    /\ rn_trace' = Append(rn_trace, [lvl |-> Len(rn_act), pc |-> RnTop.pc, opcode |-> OpCode("end")])
    /\ UNCHANGED rn_prog
    /\ UNCHANGED <<hlvars, lcvars, opvars, cpvars, plvars>>
    /\ IF Len(rn_act) = 1
       THEN /\ rn_status' = "ok"
            /\ UNCHANGED <<rn_act, rn_out, rn_maps>>
       ELSE /\ rn_act' = [Front(rn_act) EXCEPT
                            ![Len(rn_act) - 1].pc = @ + 1,
                            ![Len(rn_act) - 1].stack = Append(@, VmNone)]
            /\ UNCHANGED <<rn_status, rn_out, rn_maps>>

RnNext ==
    \/ RnLoadConst
    \/ RnLoadVariable
    \/ RnAssignVar
    \/ RnLoadBuiltinValue
    \/ RnOperate
    \/ RnCallMacro
    \/ RnCallFunction
    \/ RnOther
    \/ RnEnd

(***************************************************************************)
(* lacec/src/main.rs: `Compiler::new(parser.ast)`, `let mut code = vec![]`,*)
(* `compiler.compile(&mut code)`.  Two compilers are made for the same AST *)
(* and run independently, one iteration of compile's loop at a time.       *)
(***************************************************************************)
CompilerNew(source) == [source |-> source, ok |-> TRUE, constants |-> <<>>, chunk |-> <<>>]

CpInit ==
    /\ cp_prog \in LcSourcePrograms
    /\ cp_a = CompilerNew(LcSource(cp_prog))
    /\ cp_b = CompilerNew(LcSource(cp_prog))

\* the compiler has nodes left and has not panicked
CpBusy(c) == c.ok /\ Len(c.source) > 0

\* `while let Some(node) = self.source.next() { self.compile_node(node, chunk); }`
CpIterate(c) ==
    LET st == compile_node([ok |-> c.ok, constants |-> c.constants, chunk |-> c.chunk],
                           Head(c.source))
    IN [source |-> Tail(c.source), ok |-> st.ok, constants |-> st.constants, chunk |-> st.chunk]

CpCompileA ==
    /\ CpBusy(cp_a)
    /\ cp_a' = CpIterate(cp_a)
    /\ UNCHANGED <<cp_prog, cp_b>>
    /\ UNCHANGED <<hlvars, lcvars, rnvars, opvars, plvars>>

CpCompileB ==
    /\ CpBusy(cp_b)
    /\ cp_b' = CpIterate(cp_b)
    /\ UNCHANGED <<cp_prog, cp_a>>
    /\ UNCHANGED <<hlvars, lcvars, rnvars, opvars, plvars>>

CpNext == CpCompileA \/ CpCompileB

(***************************************************************************)
(* Constants::add_constant (lacec.rs) and CodeObject::add_constant         *)
(* (vm/opcode.rs), which are the same function: a pool and the calls made  *)
(* on it.                                                                  *)
(***************************************************************************)
PoolValues ==
    {ValueNumber(1), ValueNumber(2), ValueString("x"), ValueIdentifier("x"),
     ValueFunction(<<Ins("ReturnNone")>>, <<"x">>)}

PlInit ==
    /\ pl_pool = <<>>
    /\ pl_log = <<>>

PlAddConstant ==
    /\ Len(pl_log) < MaxCalls
    /\ \E value \in PoolValues :
          LET c == add_constant(pl_pool, value) IN
          /\ pl_pool' = c.constants
          /\ pl_log' = Append(pl_log, [value |-> value, index |-> c.index,
                                       len |-> Len(c.constants)])
    /\ UNCHANGED <<hlvars, lcvars, rnvars, opvars, cpvars>>

PlNext == PlAddConstant

(***************************************************************************)
(* Specifications.  Each machine runs alone, the others resting idle.      *)
(***************************************************************************)
HlIdle ==
    /\ hl_prog = HlProgram("none", <<>>, FALSE, "", 0, 0)
    /\ hl_act = <<>>
    /\ hl_stack = <<>>
    /\ hl_calls = <<>>
    /\ hl_status = "idle"
    /\ hl_result = HNum(0)
    /\ hl_out = <<>>
    /\ hl_trace = <<>>

LcIdle ==
    /\ lc_prog = LcProgram("none", "", 0, 0, 0, ValueNone, ValueNone)
    /\ lc_checks = FALSE
    /\ lc_constants = <<>>
    /\ lc_act = <<>>
    /\ lc_stack = <<>>
    /\ lc_calls = <<>>
    /\ lc_status = "idle"
    /\ lc_result = ValueNone
    /\ lc_out = <<>>
    /\ lc_trace = <<>>

RnIdle ==
    /\ rn_prog = RnProgram("none", 0, 0)
    /\ rn_act = <<>>
    /\ rn_status = "idle"
    /\ rn_out = <<>>
    /\ rn_maps = <<>>
    /\ rn_trace = <<>>

OpIdle ==
    /\ op_a = VmNone
    /\ op_b = VmNone
    /\ op_code = "none"
    /\ op_res = [kind |-> "idle", val |-> VmNone, msg |-> ""]

CpIdle ==
    /\ cp_prog = LcProgram("none", "", 0, 0, 0, ValueNone, ValueNone)
    /\ cp_a = [source |-> <<>>, ok |-> FALSE, constants |-> <<>>, chunk |-> <<>>]
    /\ cp_b = [source |-> <<>>, ok |-> FALSE, constants |-> <<>>, chunk |-> <<>>]

PlIdle ==
    /\ pl_pool = <<>>
    /\ pl_log = <<>>

InitHlvm == HlInit /\ LcIdle /\ RnIdle /\ OpIdle /\ CpIdle /\ PlIdle

SpecHlvm == InitHlvm /\ [][HlNext]_vars

InitLace == LcInit /\ HlIdle /\ RnIdle /\ OpIdle /\ CpIdle /\ PlIdle

SpecLace == InitLace /\ [][LcNext]_vars

InitRun == RnInit /\ HlIdle /\ LcIdle /\ OpIdle /\ CpIdle /\ PlIdle

SpecRun == InitRun /\ [][RnNext]_vars

InitOperate == OpInit /\ HlIdle /\ LcIdle /\ RnIdle /\ CpIdle /\ PlIdle

SpecOperate == InitOperate /\ [][OpNext]_vars

\* both compiler/VM pairs, one of them running
PairsInit ==
    \/ HlInit /\ LcIdle /\ RnIdle /\ OpIdle /\ CpIdle /\ PlIdle
    \/ LcInit /\ HlIdle /\ RnIdle /\ OpIdle /\ CpIdle /\ PlIdle

PairsNext == HlNext \/ LcNext

SpecPairs == PairsInit /\ [][PairsNext]_vars

\* the three machines, one of them running
MachinesInit ==
    \/ HlInit /\ LcIdle /\ RnIdle /\ OpIdle /\ CpIdle /\ PlIdle
    \/ LcInit /\ HlIdle /\ RnIdle /\ OpIdle /\ CpIdle /\ PlIdle
    \/ RnInit /\ HlIdle /\ LcIdle /\ OpIdle /\ CpIdle /\ PlIdle

MachinesNext == HlNext \/ LcNext \/ RnNext

SpecMachines == MachinesInit /\ [][MachinesNext]_vars

InitCompile == CpInit /\ HlIdle /\ LcIdle /\ RnIdle /\ OpIdle /\ PlIdle

SpecCompile == InitCompile /\ [][CpNext]_vars

InitPool == PlInit /\ HlIdle /\ LcIdle /\ RnIdle /\ OpIdle /\ CpIdle

SpecPool == InitPool /\ [][PlNext]_vars

(***************************************************************************)
(* Source-level meaning of the generated programs, used to state claims    *)
(***************************************************************************)
\* 0-based index of the candidate whose body must run: the first truthy
\* condition, else the else body (index Len(conds)) if there is one, else -1.
RECURSIVE FirstTruthy(_, _)
FirstTruthy(conds, i) ==
    IF i > Len(conds) THEN -1
    ELSE IF conds[i] THEN i - 1 ELSE FirstTruthy(conds, i + 1)

ChosenBody(conds, haselse) ==
    LET f == FirstTruthy(conds, 1) IN
    IF f >= 0 THEN f ELSE IF haselse THEN Len(conds) ELSE -1

\* Marker variables set in a frame
MarksIn(locals) == {i \in 0..(Len(BodyVars) - 1) : BodyVars[i + 1] \in DOMAIN locals}

\* Address span [first, end) of a control construct in the main vector.
\* Every statement before it is an assignment (2 instructions), and the
\* trailing `z = 9` is 2 instructions.
HlMainLen == Len(hl_act[1].code)

OuterSpan == [first |-> 2 * hl_prog.pre, end |-> HlMainLen - 2]

\* construct nested in the body of `if c {...}`: after Push c, Not, JumpIf and
\* before the if's closing Jump
InnerSpan == [first |-> OuterSpan.first + 3, end |-> OuterSpan.end - 1]

InSpan(span, ip) == span.first <= ip /\ ip < span.end

\* Indices of trace entries of the main activation
MainSteps == {i \in 1..Len(hl_trace) : hl_trace[i].lvl = 1}

Entered(span) == \E i \in MainSteps : hl_trace[i].ip = span.first

EntryDepth(span) ==
    hl_trace[CHOOSE i \in MainSteps :
                /\ hl_trace[i].ip = span.first
                /\ \A j \in MainSteps : hl_trace[j].ip = span.first => i <= j].sp

\* Control leaves the span only to its end offset, with the entry depth, and
\* a finished run that entered it did leave it.
Reconverges(span) ==
    /\ \A i \in MainSteps :
          (i < Len(hl_trace) /\ InSpan(span, hl_trace[i].ip)
                /\ ~InSpan(span, hl_trace[i + 1].ip))
            => /\ hl_trace[i + 1].ip = span.end
               /\ hl_trace[i + 1].sp = EntryDepth(span)
    /\ (Entered(span) /\ hl_status # "running")
            => \E i \in MainSteps : hl_trace[i].ip = span.end

(***************************************************************************)
(* Claims                                                                  *)
(***************************************************************************)
\* C1: in an if/elseif/else chain the body that runs is that of the first
\* candidate whose condition is truthy, or the else body when none is, and no
\* other body runs (`if false {return 1} else if true {return 2} else
\* {return 3}` yields 2 with only the second branch's print).
C1_FirstTruthyBodyRuns ==
    (hl_prog.kind = "chain" /\ hl_status = "ok") =>
        LET e == ChosenBody(hl_prog.conds, hl_prog.haselse) IN
        IF hl_prog.style = "return"
        THEN IF e >= 0 THEN hl_result = HNum(e + 1) /\ hl_out = <<HNum(e + 1)>>
             ELSE hl_result = HNum(0) /\ hl_out = <<>>
        ELSE MarksIn(hl_calls[1]) = (IF e >= 0 THEN {e} ELSE {})

\* C2: control leaves every lowered if/elseif/else chain only at the chain's
\* end offset, and arrives there with the operand stack at the depth it had
\* before the chain's first condition was evaluated.
C2_ChainReconvergesAtEnd ==
    /\ (hl_prog.kind = "chain" /\ hl_prog.style = "mark") => Reconverges(OuterSpan)
    /\ hl_prog.kind = "if_chain" => Reconverges(OuterSpan) /\ Reconverges(InnerSpan)

C2_TopLevelChainReconverges ==
    (hl_prog.kind = "chain" /\ hl_prog.style = "mark") => Reconverges(OuterSpan)

\* The while loop of the generated program: span [first, end), address of its
\* guard JumpIf; the body is what lies between the guard and the back-jump.
HlLoop ==
    LET kind == hl_prog.kind
        first == CASE kind = "while" -> OuterSpan.first
                   [] kind = "if_while" -> InnerSpan.first
                   [] kind = "count" -> 4
                   [] kind = "if_count" -> 7
        condlen == IF kind \in {"count", "if_count"} THEN 3 ELSE 1
    IN [first |-> first,
        guard |-> first + condlen + 1,
        end |-> IF kind \in {"if_while", "if_count"} THEN InnerSpan.end ELSE OuterSpan.end]

HlHasLoop == hl_prog.kind \in {"while", "if_while", "count", "if_count"}

InLoopBody(ip) == HlLoop.guard < ip /\ ip < HlLoop.end - 1

\* number of times the first instruction of the loop body was executed
HlBodyRuns == Cardinality({i \in MainSteps : hl_trace[i].ip = HlLoop.guard + 1})

\* the loop is reached and its condition is falsy the first time
HlFalsyAtEntry ==
    CASE hl_prog.kind = "while" -> ~hl_prog.conds[1]
      [] hl_prog.kind = "if_while" -> hl_prog.conds[1] /\ ~hl_prog.conds[2]
      [] hl_prog.kind = "count" -> hl_prog.k = 0
      [] hl_prog.kind = "if_count" -> hl_prog.conds[1] /\ hl_prog.k = 0
      [] OTHER -> FALSE

SkipsLoop ==
    /\ \A i \in MainSteps : ~InLoopBody(hl_trace[i].ip)
    /\ \A i \in MainSteps :
          (hl_trace[i].ip = HlLoop.guard /\ i < Len(hl_trace))
            => hl_trace[i + 1].ip = HlLoop.end
    /\ hl_status # "panic"

\* C3: a while loop whose condition is falsy the first time it is evaluated
\* executes no instruction of its body; control goes from the guard to the
\* first instruction after the loop.
C3_FalsyLoopSkipsBody == HlFalsyAtEntry => SkipsLoop

C3_TopLevelFalsyLoopSkipsBody ==
    (HlFalsyAtEntry /\ hl_prog.kind \in {"while", "count"}) => SkipsLoop

CountsTo(k) ==
    /\ HlBodyRuns <= k
    /\ hl_status \notin {"panic", "err"}
    /\ hl_status = "ok" => HlBodyRuns = k /\ hl_calls[1]["c"] = HNum(k)

\* C4: a loop `while n > 0 { ...; n = n - 1 }` started with n = k >= 0 ends,
\* its body having run exactly k times.
C4_CountingLoopRunsKTimes ==
    /\ hl_prog.kind = "count" => CountsTo(hl_prog.k)
    /\ (hl_prog.kind = "if_count" /\ hl_prog.conds[1]) => CountsTo(hl_prog.k)

C4_TopLevelCountingLoop == hl_prog.kind = "count" => CountsTo(hl_prog.k)

\* The frame binds exactly the first n parameter names, the i-th one to vals[i].
Positional(frame, n, vals) ==
    /\ DOMAIN frame = {ParamNames[i] : i \in 1..n}
    /\ \A i \in 1..n : frame[ParamNames[i]] = vals[i]

\* The call `f(11, .., 1n)` of a function declared with n parameters has just
\* pushed the callee's frame; no instruction of the callee has run yet.
HlFrameCreated ==
    /\ hl_prog.kind = "call"
    /\ hl_status = "running"
    /\ Len(hl_trace) > 0
    /\ Last(hl_trace).op = "Call"
    /\ Len(hl_act) = Last(hl_trace).lvl + 1

LcFrameCreated ==
    /\ lc_prog.kind = "call"
    /\ lc_prog.m = lc_prog.n
    /\ lc_status = "running"
    /\ Len(lc_trace) > 0
    /\ Last(lc_trace).ins.op = "CallFunction"
    /\ Len(lc_act) = Last(lc_trace).lvl + 1

\* C5: for a call f(a1, .., an) of a function declared with parameters
\* p1, .., pn the callee's new frame binds pi to the value of ai for every i,
\* in the lacec/lace pair and in the codegen/HLVM pair.
C5_PositionalBinding ==
    /\ HlFrameCreated =>
          Positional(Last(hl_calls), hl_prog.pre, [i \in 1..3 |-> HNum(ArgValues[i])])
    /\ LcFrameCreated =>
          Positional(Last(lc_calls), lc_prog.n, [i \in 1..3 |-> ValueNumber(ArgValues[i])])

\* a frame of three parameters bound from three computed arguments
C5_ThreeParametersBound ==
    /\ LcFrameCreated
    /\ lc_prog.n = 3
    /\ lc_prog.style = "expr"
    /\ Last(lc_calls)["p1"] = ValueNumber(11)
    /\ Last(lc_calls)["p3"] = ValueNumber(13)

\* The code object whose opcode trace entry i records: the outermost one at
\* level 1, the callee of its call of "f" at level 2.
RnFunctionAt(lvl) ==
    IF lvl = 1 THEN rn_act[1].function ELSE Resolve(rn_act[1].function, "f").func

\* Trace entry i is a CallFunction whose callee resolves and whose argument
\* count differs from the callee's parameter count.
RnMismatchAt(i) ==
    LET e == rn_trace[i]
        function == RnFunctionAt(e.lvl)
    IN /\ e.opcode.op = "CallFunction"
       /\ e.lvl <= 2
       /\ LET name == function.constants[e.opcode.idx + 1]
              resolved == Resolve(function, name.v)
          IN resolved.found /\ e.opcode.len # Len(resolved.func.parameters)

\* C6: a CallFunction whose argument count differs from the resolved callee's
\* parameter count raises and ends the run there: it is the last opcode
\* executed, no invocation of the callee exists and no variable map was built
\* for it.
C6_ArityMismatchRaisesBeforeCallee ==
    \A i \in 1..Len(rn_trace) :
        RnMismatchAt(i) =>
            /\ i = Len(rn_trace)
            /\ rn_status = "raise"
            /\ Len(rn_act) = rn_trace[i].lvl
            /\ Len(rn_maps) = rn_trace[i].lvl - 1

\* a mismatched call of g made from inside f, f itself having been entered
C6_InnerMismatchRaised ==
    /\ rn_prog.kind = "global"
    /\ rn_prog.argc = 2
    /\ rn_prog.nparams = 3
    /\ Len(rn_trace) > 0
    /\ RnMismatchAt(Len(rn_trace))
    /\ rn_status = "raise"
    /\ Len(rn_act) = 2

\* Trace index of the step with which the activation that made call step i
\* goes on, 0 if it has not (yet) done so.
LcResume(i) ==
    LET later == {k \in (i + 1)..Len(lc_trace) : lc_trace[k].lvl = lc_trace[i].lvl} IN
    IF later = {} THEN 0 ELSE CHOOSE k \in later : \A l \in later : k <= l

\* C7: in nested calls of any depth up to MaxDepth every caller goes on at the
\* instruction after its CallFunction, the operand stack holding one result
\* in place of the arguments and the callee value.
C7_CallerResumesWithOneResult ==
    lc_prog.kind = "nest" =>
        \A i \in 1..Len(lc_trace) :
            (lc_trace[i].ins.op = "CallFunction" /\ LcResume(i) # 0) =>
                /\ lc_trace[LcResume(i)].ip = lc_trace[i].ip + 1
                /\ lc_trace[LcResume(i)].sp = lc_trace[i].sp - lc_trace[i].ins.len

(***************************************************************************)
(* Exact integer arithmetic, used to state what an operation should give.  *)
(* A number is written in base 2^11, least significant limb first; after   *)
(* Carry the first four limbs lie in 0..2047 and the fifth carries the     *)
(* sign.                                                                   *)
(***************************************************************************)
Limbs(a) == <<a % 2048, (a \div 2048) % 2048, a \div 4194304, 0, 0>>

RECURSIVE Carry(_, _)
Carry(cs, k) ==
    IF k >= Len(cs) THEN cs
    ELSE Carry([cs EXCEPT ![k] = cs[k] % 2048, ![k + 1] = @ + (cs[k] \div 2048)], k + 1)

ExactSum(x, y) == Carry([k \in 1..5 |-> x[k] + y[k]], 1)

ExactDifference(x, y) == Carry([k \in 1..5 |-> x[k] - y[k]], 1)

ExactProduct(x, y) ==
    LET Term(i, k) == IF k + 1 - i \in 1..3 THEN x[i] * y[k + 1 - i] ELSE 0 IN
    Carry([k \in 1..5 |-> Term(1, k) + Term(2, k) + Term(3, k)], 1)

Exact(code, a, b) ==
    CASE code = "Add" -> ExactSum(Limbs(a), Limbs(b))
      [] code = "Sub" -> ExactDifference(Limbs(a), Limbs(b))
      [] code = "Mul" -> ExactProduct(Limbs(a), Limbs(b))

\* the number lies in -2^31 .. 2^31 - 1
Representable(cs) ==
    \/ cs[5] = 0 /\ cs[4] = 0 /\ cs[3] <= 511
    \/ cs[5] = -1 /\ cs[4] = 2047 /\ cs[3] >= 1536

ToNumber(cs) ==
    (IF cs[5] = 0 THEN cs[3] ELSE cs[3] - 2048) * 4194304 + cs[2] * 2048 + cs[1]

\* `operate` has been applied to two integers with Add, Sub or Mul
IntegerArithmeticDone ==
    /\ op_res.kind \notin {"none", "idle"}
    /\ op_a.t = "Integer"
    /\ op_b.t = "Integer"
    /\ op_code \in {"Add", "Sub", "Mul"}

\* C8: `operate` with Add, Sub or Mul on two Integers gives the Integer of
\* the exact result when that lies in the 32-bit range and raises a runtime
\* error otherwise; it never gives a wrapped value.
C8_IntegerArithmeticExactOrRaises ==
    IntegerArithmeticDone =>
        LET exact == Exact(op_code, op_a.v, op_b.v) IN
        IF Representable(exact) THEN op_res = Gives(VmInteger(ToNumber(exact)))
        ELSE op_res.kind = "raise"

\* 2147483647 + 1 has been added and raised
C8_OverflowingAddRaised ==
    /\ IntegerArithmeticDone
    /\ op_code = "Add"
    /\ op_a = VmInteger(I32Max)
    /\ op_b = VmInteger(1)
    /\ op_res.kind = "raise"

\* the program `r = a <op> b` or `r = -a` on numbers has executed its operation
LcArithmeticDone ==
    /\ lc_prog.kind \in {"binary", "unary"}
    /\ lc_prog.a.t = "Number"
    /\ lc_prog.kind = "binary" => lc_prog.b.t = "Number"
    /\ \E i \in 1..Len(lc_trace) : lc_trace[i].ins.op \in {"Add", "Sub", "Mul", "Negate"}

LcExactResult ==
    IF lc_prog.kind = "unary" THEN ExactDifference(Limbs(0), Limbs(lc_prog.a.v))
    ELSE Exact(CASE lc_prog.style = "OpAdd" -> "Add"
                 [] lc_prog.style = "OpSub" -> "Sub"
                 [] lc_prog.style = "OpMul" -> "Mul",
               lc_prog.a.v, lc_prog.b.v)

\* C9: Add, Sub, Mul and Negate on Numbers in the lace VM are checked: a
\* result outside the 32-bit signed range ends the run with a runtime error,
\* neither wrapped around nor by a panic.
C9_NumberOverflowIsRuntimeError ==
    (LcArithmeticDone /\ ~Representable(LcExactResult)) => lc_status = "runtime_error"

\* n copies of str
RECURSIVE Copies(_, _)
Copies(str, n) == IF n = 0 THEN "" ELSE Copies(str, n - 1) \o str

\* C10: String * Integer gives the string repeated n times for n >= 0 (the
\* empty string for n = 0) and a runtime error for n < 0.
C10_StringTimesInteger ==
    (op_res.kind \notin {"none", "idle"} /\ op_code = "Mul"
        /\ op_a.t = "String" /\ op_b.t = "Integer") =>
        IF op_b.v >= 0 THEN op_res = Gives(VmString(Copies(op_a.v, op_b.v)))
        ELSE op_res.kind = "raise"

\* the value an array literal denotes: the array of its elements' values
RECURSIVE ElementValues(_)
ElementValues(nodes) ==
    IF Len(nodes) = 0 THEN <<>> ELSE <<Head(nodes).value>> \o ElementValues(Tail(nodes))

LiteralValue(v) == IF v.t = "NodeArray" THEN ValueArray(ElementValues(v.v)) ELSE v

\* C11: compiling `return v;` for a literal v (number, float, string, bool,
\* none, array) and running the result returns v unchanged.
C11_LiteralRoundTrip ==
    (lc_prog.kind = "literal" /\ lc_status # "running") =>
        /\ lc_status = "ok"
        /\ lc_result = LiteralValue(lc_prog.a)

\* the same for every literal that is not written as an array of nodes
C11_ValueLiteralRoundTrip ==
    (lc_prog.kind = "literal" /\ lc_prog.a.t # "NodeArray" /\ lc_status # "running") =>
        /\ lc_status = "ok"
        /\ lc_result = lc_prog.a


\* both compilers have consumed their whole AST
CpDone == Len(cp_a.source) = 0 /\ Len(cp_b.source) = 0

PlLenBefore(j) == IF j = 1 THEN 0 ELSE pl_log[j - 1].len

\* call j was made with a value some earlier call had already added
PlRepeated(j) == \E i \in 1..(j - 1) : pl_log[i].value = pl_log[j].value

\* C13: add_constant returns the index of an equal value when the pool has one
\* and otherwise appends the value and returns the new last index; the pool
\* never holds two equal values, every index handed out still names its value,
\* and a repeated add_constant(v) returns the same index without growing the
\* pool.
C13_AddConstantDeduplicates ==
    /\ \A i, j \in 1..Len(pl_pool) : pl_pool[i] = pl_pool[j] => i = j
    /\ \A j \in 1..Len(pl_log) :
          /\ pl_log[j].index + 1 \in 1..Len(pl_pool)
          /\ pl_pool[pl_log[j].index + 1] = pl_log[j].value
          /\ IF PlRepeated(j)
             THEN /\ pl_log[j].len = PlLenBefore(j)
                  /\ \A i \in 1..(j - 1) :
                        pl_log[i].value = pl_log[j].value => pl_log[i].index = pl_log[j].index
             ELSE /\ pl_log[j].len = PlLenBefore(j) + 1
                  /\ pl_log[j].index = pl_log[j].len - 1
    /\ Len(pl_log) > 0 => Len(pl_pool) = pl_log[Len(pl_log)].len

C13_RepeatedAfterGrowth ==
    /\ Len(pl_log) >= 4
    /\ Len(pl_pool) >= 2
    /\ pl_log[1].value = pl_log[4].value
    /\ pl_log[2].value # pl_log[1].value
    /\ pl_log[3].value = pl_log[2].value


\* a step of the lace machine that executes the instruction op
LcExecutes(op) ==
    /\ lc_status = "running"
    /\ LcIp < Len(LcCode)
    /\ LcInstr.op = op
    /\ lc_trace' # lc_trace

\* the name an instruction's constant index stands for
LcName == lc_constants[LcInstr.idx + 1].v

\* C14: LoadVariable pushes the binding of the innermost frame if that frame
\* has the name, otherwise the binding of the global frame (index 0); the
\* frames between the two are never consulted; when neither has the name the
\* run ends in a runtime error and nothing is pushed.
C14_LoadVariableLookup ==
    [][LcExecutes("LoadVariable") =>
        IF LcName \in DOMAIN lc_calls[Len(lc_calls)]
        THEN /\ lc_stack' = Append(lc_stack, lc_calls[Len(lc_calls)][LcName])
             /\ lc_status' = "running"
        ELSE IF LcName \in DOMAIN lc_calls[1]
        THEN /\ lc_stack' = Append(lc_stack, lc_calls[1][LcName])
             /\ lc_status' = "running"
        ELSE /\ lc_status' = "runtime_error"
             /\ lc_stack' = lc_stack]_vars

\* the run ended in a runtime error on a name that only the frame between the
\* innermost and the global one binds
C14_MiddleFrameNotConsulted ==
    /\ lc_prog.kind = "scope"
    /\ lc_status = "runtime_error"
    /\ Len(lc_calls) = 3
    /\ Last(lc_trace).ins.op = "LoadVariable"
    /\ "y" \in DOMAIN lc_calls[2]
    /\ "y" \notin DOMAIN lc_calls[3]
    /\ "y" \notin DOMAIN lc_calls[1]


\* an AssignVariable step: one value leaves the stack and becomes the binding
\* of the name in the innermost frame, every other binding staying as it was
LcAssigns ==
    /\ lc_stack' = Front(lc_stack)
    /\ Len(lc_calls') = Len(lc_calls)
    /\ \A k \in 1..(Len(lc_calls) - 1) : lc_calls'[k] = lc_calls[k]
    /\ DOMAIN lc_calls'[Len(lc_calls)] = DOMAIN lc_calls[Len(lc_calls)] \cup {LcName}
    /\ lc_calls'[Len(lc_calls)][LcName] = Last(lc_stack)
    /\ \A n \in DOMAIN lc_calls[Len(lc_calls)] :
          n # LcName => lc_calls'[Len(lc_calls)][n] = lc_calls[Len(lc_calls)][n]

\* when the caller of call step i goes on, the call stack is the one it had
LcFramesRestored ==
    \A i \in 1..Len(lc_trace) :
        (lc_trace[i].ins.op = "CallFunction" /\ LcResume(i) # 0) =>
            lc_trace[LcResume(i)].frames = lc_trace[i].frames

\* C15: AssignVariable pops exactly one value and writes it only into the
\* innermost frame, so a callee's assignments change neither the global frame
\* nor a caller's frame; after the return the callee's frame is gone and the
\* caller's bindings are the ones it had before the call.
C15_AssignmentIsLocal ==
    /\ [][(LcExecutes("AssignVariable") /\ Len(lc_stack) > 0) => LcAssigns]_vars
    /\ []LcFramesRestored

\* f1 and f2 both assigned y and returned; the global y is still 1
C15_GlobalKeptAcrossCalls ==
    /\ lc_prog.kind = "scope"
    /\ lc_prog.style = "both"
    /\ Len(lc_trace) > 0
    /\ Last(lc_trace).lvl = 1
    /\ Len(Last(lc_trace).frames) = 1
    /\ {"y", "r"} \subseteq DOMAIN Last(lc_trace).frames[1]
    /\ Last(lc_trace).frames[1]["y"] = ValueNumber(1)
    /\ \E i \in 1..Len(lc_trace) :
          /\ Len(lc_trace[i].frames) = 3
          /\ "y" \in DOMAIN lc_trace[i].frames[2]
          /\ "y" \in DOMAIN lc_trace[i].frames[3]
          /\ lc_trace[i].frames[2]["y"] = ValueNumber(2)
          /\ lc_trace[i].frames[3]["y"] = ValueNumber(3)


\* C16: every failure inside execute (a local that is not bound, a pop from
\* the empty stack, operands an operation does not support, a primitive id
\* that does not exist, a call of a value that is no function) ends the run
\* as Result::Err, at any call depth, and never as a panic.
C16_FailuresAreErr ==
    (hl_prog.kind = "fail" /\ hl_status # "running") => hl_status = "err"


\* the steps with which an activation of run() stops
LcStops == {"Return", "ReturnNone", "end"}

\* step k belongs to an activation begun after step i: run() was left at
\* step i's level in between
LcLaterActivation(i, k) ==
    \E m \in (i + 1)..(k - 1) : lc_trace[m].lvl < lc_trace[i].lvl

\* C17: an activation of run() stops exactly when ip reaches the length of its
\* code, with the result None, or when it executes Return or ReturnNone;
\* after that no further instruction of that activation runs; and every
\* instruction is fetched at an ip inside the code.
C17_RunLoopStops ==
    /\ \A i \in 1..Len(lc_trace) :
          /\ IF lc_trace[i].ins.op = "end"
             THEN lc_trace[i].ip = lc_trace[i].len
             ELSE lc_trace[i].ip < lc_trace[i].len
          /\ lc_trace[i].ins.op \in LcStops =>
                \A k \in (i + 1)..Len(lc_trace) :
                    lc_trace[k].lvl >= lc_trace[i].lvl => LcLaterActivation(i, k)
          /\ (i < Len(lc_trace) /\ lc_trace[i + 1].lvl < lc_trace[i].lvl) =>
                /\ lc_trace[i].ins.op \in LcStops
                /\ lc_trace[i + 1].lvl = lc_trace[i].lvl - 1
                /\ lc_trace[i].ins.op = "end" =>
                      lc_trace[i + 1].stack = Append(lc_trace[i].stack, ValueNone)
    /\ lc_status = "ok" =>
          /\ Last(lc_trace).ins.op \in LcStops
          /\ Last(lc_trace).lvl = 1
          /\ Last(lc_trace).ins.op = "end" => lc_result = ValueNone

\* f1 called f2; f2 ran to the end of its code, f1 stopped at its ReturnNone
\* and the top level at the end of its code
C17_EveryWayOfStopping ==
    /\ lc_prog.kind = "nest"
    /\ lc_status = "ok"
    /\ Last(lc_trace).ins.op = "end"
    /\ \E i, k \in 1..Len(lc_trace) :
          /\ i < k
          /\ lc_trace[i].lvl = 3 /\ lc_trace[i].ins.op = "end"
          /\ lc_trace[k].lvl = 2 /\ lc_trace[k].ins.op = "ReturnNone"
          /\ lc_trace[k].ip < lc_trace[k].len


\* an activation stops with the value ret, having taken `popped` values off
\* the stack: its frame is gone, and ret is what the caller's CallFunction
\* pushes before it goes on, or the result of the run at the top level
LcReturns(ret, popped) ==
    /\ lc_calls' = Front(lc_calls)
    /\ IF Len(lc_act) > 1
       THEN /\ lc_stack' = Append(DropLast(lc_stack, popped), ret)
            /\ Len(lc_act') = Len(lc_act) - 1
            /\ lc_act'[Len(lc_act')].ip = lc_act[Len(lc_act')].ip + 1
            /\ lc_status' = "running"
       ELSE /\ lc_stack' = DropLast(lc_stack, popped)
            /\ lc_result' = ret
            /\ lc_status' = "ok"

\* C18: Return pops exactly one value and the callee's frame, and that value
\* is the result of the call, which the caller pushes; ReturnNone pops the
\* frame and no value, and the result pushed is None.
C18_ReturnGivesTheCallResult ==
    /\ [][(LcExecutes("Return") /\ Len(lc_stack) > 0) => LcReturns(Last(lc_stack), 1)]_vars
    /\ [][LcExecutes("ReturnNone") => LcReturns(ValueNone, 0)]_vars

\* f1(5) has just returned its parameter: the caller holds 5 and its own frame
C18_ReturnedToCaller ==
    /\ lc_prog.kind = "nest"
    /\ Len(lc_trace) > 0
    /\ Last(lc_trace).ins.op = "Return"
    /\ Last(lc_trace).lvl = 2
    /\ Len(lc_act) = 1
    /\ Len(lc_calls) = 1
    /\ lc_stack = <<ValueNumber(5)>>


\* what the called function computes and returns: p1 + 1, or 1 + 1 without
\* parameters
RnReturned == VmInteger(IF rn_prog.nparams = 0 THEN 2 ELSE ArgValues[1] + 1)

\* C19: run returns the value its code produces: Return stops the invocation
\* with the value on top of its stack as the result, and the caller's
\* CallFunction pushes that result, so that r = f(..) binds r to it.
C19_RunReturnsTheValue ==
    (/\ rn_prog.kind = "direct"
     /\ rn_prog.argc = rn_prog.nparams
     /\ "r" \in DOMAIN rn_act[1].variables) =>
        rn_act[1].variables["r"] = RnReturned


\* `left <op> right` for the operators whose operands cannot be exchanged
Ordered(token, left, right) ==
    CASE token = "OpSub" -> [num |-> TRUE, n |-> left - right, holds |-> FALSE]
      [] token = "OpLess" -> [num |-> FALSE, n |-> 0, holds |-> left < right]
      [] token = "OpMore" -> [num |-> FALSE, n |-> 0, holds |-> left > right]
      [] token = "OpLessEq" -> [num |-> FALSE, n |-> 0, holds |-> left <= right]
      [] token = "OpMoreEq" -> [num |-> FALSE, n |-> 0, holds |-> left >= right]

\* the lace program is one `r = a <op> b` on numbers whose result fits, and
\* its operation has just been executed
LcOrderedDone ==
    /\ lc_prog.kind = "binary"
    /\ lc_prog.style \in OrderTokens
    /\ lc_prog.a.t = "Number" /\ lc_prog.b.t = "Number"
    /\ SubFits(lc_prog.a.v, lc_prog.b.v)
    /\ Len(lc_trace) > 0
    /\ Last(lc_trace).ins = BinaryInstruction(lc_prog.style)
    /\ lc_status = "running"

\* the HLVM program `return a <op> b` has returned
HlOrderedDone ==
    /\ hl_prog.kind = "binary"
    /\ hl_status = "ok"

Truthy(val) ==
    CASE val.t = "True" -> TRUE
      [] val.t = "False" -> FALSE
      [] val.t \in {"Number", "Float"} -> val.v # 0
      [] val.t \in {"String", "Array"} -> Len(val.v) > 0
      [] val.t = "None" -> FALSE

\* a LogicalNot has just been executed on a Bool, Number, Float, String,
\* Array or None
LcNotDone ==
    /\ Len(lc_trace) > 0
    /\ Last(lc_trace).ins.op = "LogicalNot"
    /\ Len(Last(lc_trace).stack) > 0
    /\ Last(Last(lc_trace).stack).t \in
          {"True", "False", "Number", "Float", "String", "Array", "None"}

\* C21: LogicalNot pushes the logical complement of the operand's truthiness,
\* every nonzero number (a negative one too) being truthy.
C21_NotComplementsTruthiness ==
    LcNotDone =>
        /\ lc_status = "running"
        /\ lc_stack = Append(Front(Last(lc_trace).stack),
                             bool2value(~Truthy(Last(Last(lc_trace).stack))))


\* the kinds of value and the symbols of the ordering operators
KindName(value) ==
    CASE value.t = "Integer" -> "integer" [] value.t = "Float" -> "float"
      [] value.t = "String" -> "string" [] value.t = "Array" -> "array"
      [] value.t = "Bool" -> "bool" [] value.t = "None" -> "none"

OrderingSymbol(code) ==
    CASE code = "More" -> ">" [] code = "Less" -> "<"
      [] code = "MoreOrEqual" -> ">=" [] code = "LessOrEqual" -> "<="

\* `left <code> right` on two numbers in the same unit
Holds(code, left, right) ==
    CASE code = "More" -> left > right [] code = "Less" -> left < right
      [] code = "MoreOrEqual" -> left >= right [] code = "LessOrEqual" -> left <= right

\* an operand as a float (twice its value), an Integer being widened
Widened(value) == IF value.t = "Integer" THEN as_f32(value.v) ELSE value.v

OrderingDone == op_code \in OrderingCodes /\ op_res.kind # "none"

Numeric(value) == value.t \in {"Integer", "Float"}

\* C22: an ordering comparison returns a Bool for every combination of
\* Integer and Float operands, comparing two Integers exactly and widening an
\* Integer that meets a Float; every other combination of kinds raises the
\* unsupported-operation error that names the operator and both kinds.
C22_OrderingOnNumbersOnly ==
    OrderingDone =>
        IF Numeric(op_a) /\ Numeric(op_b)
        THEN /\ op_res.kind = "value"
             /\ op_res.val.t = "Bool"
             /\ op_res.val.v =
                   IF op_a.t = "Integer" /\ op_b.t = "Integer"
                   THEN Holds(op_code, op_a.v, op_b.v)
                   ELSE Holds(op_code, Widened(op_a), Widened(op_b))
        ELSE /\ op_res.kind = "raise"
             /\ op_res.msg = "Unsupported operation [" \o KindName(op_a) \o " "
                                \o OrderingSymbol(op_code) \o " " \o KindName(op_b) \o "]"

\* 16777217 > 16777216.0 has been answered: as floats the two are equal
C22_IntegerMetFloat ==
    /\ OrderingDone
    /\ op_code = "More"
    /\ op_a = VmInteger(16777217)
    /\ op_b = VmFloat(33554432)
    /\ op_res = Gives(VmBool(FALSE))


\* the lace program name!(1, 2) has executed its CallPrimitiveFunction
LcPrimitiveDone ==
    /\ lc_prog.kind = "primitive"
    /\ Len(lc_trace) > 0
    /\ Last(lc_trace).ins.op = "CallPrimitiveFunction"

\* the HLVM program primitive(11, ..) has executed its CallPrimitive
HlPrimitiveDone ==
    /\ hl_prog.kind = "primitive"
    /\ Len(hl_trace) > 0
    /\ Last(hl_trace).op = "CallPrimitive"

\* the program writeln(11, ..) or h(11, ..) of vm::run has executed its CallMacro
RnMacroDone ==
    /\ rn_prog.kind \in {"macro", "nomacro"}
    /\ Len(rn_trace) > 0
    /\ Last(rn_trace).opcode.op = "CallMacro"

\* C23: a primitive or macro call with argc arguments takes exactly argc
\* values off the operand stack and hands them to the native function in the
\* order in which the source wrote them; a name or id that the table does not
\* have ends the run, and no native function has been invoked.
C23_PrimitiveArguments ==
    /\ LcPrimitiveDone =>
          /\ Last(lc_trace).stack = <<ValueNumber(1), ValueNumber(2)>>
          /\ lc_stack = <<>>
          /\ CASE lc_prog.style = "writeln!" ->
                    lc_status = "running" /\ lc_out = <<<<ValueNumber(1), ValueNumber(2)>>>>
               [] lc_prog.style = "exit!" -> lc_status = "exit" /\ lc_out = <<>>
               [] OTHER -> lc_status = "runtime_error" /\ lc_out = <<>>
    /\ HlPrimitiveDone =>
          /\ Last(hl_trace).sp = hl_prog.k
          /\ CASE hl_prog.pre = 0 ->
                    /\ hl_status = "running"
                    /\ hl_out = <<HNum(ArgValues[1])>>
                    /\ hl_stack = <<HNum(0)>>
               [] hl_prog.pre = 1 -> hl_status = "exit" /\ hl_out = <<>> /\ hl_stack = <<>>
               [] OTHER -> hl_status = "panic" /\ hl_out = <<>>
    /\ RnMacroDone =>
          IF rn_prog.kind = "macro"
          THEN /\ rn_status = "running"
               /\ rn_out = <<[i \in 1..rn_prog.argc |-> VmInteger(ArgValues[i])]>>
               /\ rn_act[1].stack = <<VmNone>>
          ELSE /\ rn_status = "raise"
               /\ rn_out = <<>>

\* print(11, 12, 13) has printed its first argument on the HLVM
C23_FirstArgumentPrinted ==
    /\ HlPrimitiveDone
    /\ hl_prog.pre = 0
    /\ hl_prog.k = 3
    /\ hl_out = <<HNum(11)>>
    /\ hl_stack = <<HNum(0)>>


\* Step i of the top level is the first one after the code of an expression
\* that began on the empty stack: the assignment of `r = <expression>`, the
\* Return of `return <literal>`, the step after the statement `name!(1, 2)`.
LcExpressionEnded(i) ==
    /\ lc_trace[i].lvl = 1
    /\ \/ /\ lc_prog.kind \in {"binary", "unary", "truthy"}
          /\ lc_trace[i].ins.op = "AssignVariable"
       \/ /\ lc_prog.kind = "call" /\ lc_prog.n = lc_prog.m
          /\ lc_trace[i].ins.op = "AssignVariable"
       \/ /\ lc_prog.kind = "literal"
          /\ lc_trace[i].ins.op = "Return"
       \/ /\ lc_prog.kind = "primitive"
          /\ i > 1
          /\ lc_trace[i - 1].ins.op = "CallPrimitiveFunction"

\* C24: the code of every expression form (literal, identifier, unary,
\* binary, function call, primitive call, array literal) leaves exactly one
\* value more on the operand stack than it found.
C24_ExpressionPushesOneValue ==
    \A i \in 1..Len(lc_trace) : LcExpressionEnded(i) => Len(lc_trace[i].stack) = 1


\* steps i < k of a trace belong to the same activation: they have the same
\* level and the machine has not been below it in between
SameActivation(trace, i, k) ==
    /\ i < k
    /\ trace[i].lvl = trace[k].lvl
    /\ \A m \in i..k : trace[m].lvl >= trace[i].lvl

\* C25: within one activation the depth of the operand stack at an
\* instruction boundary depends on the address alone: whenever control is at
\* the same address again, the head of a while loop for one, the depth is
\* the same.
C25_DepthDeterminedByAddress ==
    /\ \A i, k \in 1..Len(lc_trace) :
          (SameActivation(lc_trace, i, k) /\ lc_trace[i].ip = lc_trace[k].ip) =>
              lc_trace[i].sp = lc_trace[k].sp
    /\ \A i, k \in 1..Len(hl_trace) :
          (SameActivation(hl_trace, i, k) /\ hl_trace[i].ip = hl_trace[k].ip) =>
              hl_trace[i].sp = hl_trace[k].sp


\* the first compiler compiles a function declaration in this step
CpDeclares ==
    /\ CpBusy(cp_a)
    /\ Head(cp_a.source).node = "Function"
    /\ cp_a' # cp_a

\* C26: compiling a function declaration appends no instruction to the
\* enclosing instruction stream: its length and contents are the same before
\* and after.
C26_DeclarationEmitsNothing ==
    [][CpDeclares => cp_a'.chunk = cp_a.chunk]_vars


\* a step of vm::run that executes a CallFunction whose arguments are there
RnCalls ==
    /\ rn_status = "running"
    /\ RnTop.pc < Len(RnFunction.code)
    /\ RnOpcode.op = "CallFunction"
    /\ Len(RnTop.stack) >= RnOpcode.len
    /\ rn_trace' # rn_trace

\* the step entered the code object callee
RnEnters(callee) ==
    IF RnOpcode.len = Len(callee.parameters)
    THEN /\ Len(rn_act') = Len(rn_act) + 1
         /\ rn_act'[Len(rn_act')].function = callee
         /\ rn_act'[Len(rn_act')].pc = 0
    ELSE rn_status' = "raise" /\ Len(rn_act') = Len(rn_act)

\* C27: CallFunction looks the callee's name up in the functions nested in
\* the function that is executing, and only when it is not there in the
\* functions of the top-level code object, whatever the call depth; a name
\* that both have denotes the nested one; a name that neither has ends the
\* run with an error and no callee is entered.
C27_CalleeResolution ==
    [][RnCalls =>
        LET name == RnFunction.constants[RnOpcode.idx + 1].v
            nested == RnFunction.functions
            top == rn_act[1].function.functions
        IN IF name \in DOMAIN nested THEN RnEnters(nested[name])
           ELSE IF name \in DOMAIN top THEN RnEnters(top[name])
           ELSE /\ rn_status' = "raise"
                /\ rn_act' = rn_act
                /\ rn_out' = rn_out]_vars

\* f has called g, which f's own functions and the top level both define
\* differently: the invocation entered is f's g
C27_NestedShadowsGlobal ==
    /\ rn_prog.kind = "both"
    /\ Len(rn_act) = 3
    /\ "g" \in DOMAIN rn_act[2].function.functions
    /\ "g" \in DOMAIN rn_act[1].function.functions
    /\ rn_act[2].function.functions["g"] # rn_act[1].function.functions["g"]
    /\ rn_act[3].function = rn_act[2].function.functions["g"]

\* a step of the lace machine that divides a Number by the Number zero
LcDividesByZero ==
    /\ LcExecutes("Div") \/ LcExecutes("Mod")
    /\ Len(lc_stack) >= 2
    /\ BothNumbers(lc_stack[Len(lc_stack) - 1], lc_stack[Len(lc_stack)])
    /\ lc_stack[Len(lc_stack)].v = 0

\* C28: Div and Mod of an integer by the integer zero end the run with a
\* fatal runtime error: no result value is pushed and the process does not
\* panic.
C28_ZeroDivisorIsRuntimeError ==
    [][LcDividesByZero => lc_status' = "runtime_error"]_vars

\* addresses of the instructions op inside the top-level chain
ChainAddresses(op) ==
    {a \in OuterSpan.first..(OuterSpan.end - 1) : hl_act[1].code[a + 1].op = op}

\* the to-end Jump that closes the candidate guarded at address guard
ClosingJump(guard) ==
    CHOOSE j \in ChainAddresses("Jump") :
        /\ j > guard
        /\ \A k \in ChainAddresses("Jump") : k > guard => j <= k

\* C29: in the code from_hir makes of an if/elseif/else chain every to-end
\* Jump targets the chain's end offset and the guard JumpIf of a candidate
\* targets the start offset of what follows the candidate's block: the next
\* elseif's condition, the else body after the last elseif, or the end offset
\* after the last candidate; no jump keeps the placeholder target 0.
C29_ChainJumpsPatched ==
    hl_prog.kind = "chain" =>
        /\ \A j \in ChainAddresses("Jump") : hl_act[1].code[j + 1].addr = OuterSpan.end
        /\ \A g \in ChainAddresses("JumpIf") :
              hl_act[1].code[g + 1].addr = ClosingJump(g) + 1
        /\ \A a \in ChainAddresses("Jump") \cup ChainAddresses("JumpIf") :
              hl_act[1].code[a + 1].addr # 0

\* the same for the to-end jumps and the placeholders alone
C29_ToEndJumpsPatched ==
    hl_prog.kind = "chain" =>
        /\ \A j \in ChainAddresses("Jump") : hl_act[1].code[j + 1].addr = OuterSpan.end
        /\ \A a \in ChainAddresses("Jump") \cup ChainAddresses("JumpIf") :
              hl_act[1].code[a + 1].addr # 0

\* An `if` without elseif and else whose code is span: condition (one Push),
\* Not, guard, body, closing Jump.  Once its condition has been evaluated and
\* the run is over, every instruction of the body was executed once when the
\* condition is truthy and none when it is falsy, and control left the span
\* to its end offset only.
SimpleIfRuns(span, condition) ==
    (Entered(span) /\ hl_status # "running") =>
        /\ \A ip \in (span.first + 3)..(span.end - 2) :
              Cardinality({i \in MainSteps : hl_trace[i].ip = ip})
                  = IF condition THEN 1 ELSE 0
        /\ Reconverges(span)

\* the programs whose chain is a single `if`: at top level, and as the body
\* of an enclosing `if`
HlSimpleIf ==
    /\ hl_prog.kind = "chain"
    /\ hl_prog.style = "mark"
    /\ Len(hl_prog.conds) = 1
    /\ ~hl_prog.haselse

HlNestedSimpleIf ==
    /\ hl_prog.kind = "if_chain"
    /\ Len(hl_prog.conds) = 2
    /\ ~hl_prog.haselse

\* C30: an `if` with no elseif and no else runs nothing of its body when the
\* condition is falsy and its body once when it is truthy, and in both cases
\* execution continues at the first instruction after the if.
C30_SimpleIf ==
    /\ HlSimpleIf => SimpleIfRuns(OuterSpan, hl_prog.conds[1])
    /\ HlNestedSimpleIf => SimpleIfRuns(InnerSpan, hl_prog.conds[2])

\* the same for the `if` at top level alone
C30_TopLevelSimpleIf ==
    HlSimpleIf => SimpleIfRuns(OuterSpan, hl_prog.conds[1])

\* The loop of the generated HLVM program is lowered and run as a loop: the
\* guard targets the instruction after the back-jump and the back-jump the
\* first instruction of the condition; the body is entered from the guard
\* only, the back-jump returns to the condition, and the instruction after
\* the loop is reached from the guard only.
HlLoopLowered ==
    /\ hl_act[1].code[HlLoop.guard + 1] = JumpIf(HlLoop.end)
    /\ hl_act[1].code[HlLoop.end] = Jump(HlLoop.first)
    /\ \A i \in MainSteps :
          i < Len(hl_trace) =>
            /\ hl_trace[i + 1].ip = HlLoop.guard + 1 => hl_trace[i].ip = HlLoop.guard
            /\ hl_trace[i].ip = HlLoop.end - 1 => hl_trace[i + 1].ip = HlLoop.first
            /\ hl_trace[i + 1].ip = HlLoop.end => hl_trace[i].ip = HlLoop.guard

\* C31: the back-jump of a lowered while loop targets the first instruction
\* of the loop's condition and the guard's jump the first instruction after
\* the back-jump, so that the body is entered only after a truthy condition,
\* the end of the body returns to the condition, and the instruction after
\* the loop is reached only by the guard finding the condition falsy.
C31_WhileLowering == HlHasLoop => HlLoopLowered

\* the same for the loops at top level alone
C31_TopLevelWhileLowering == hl_prog.kind \in {"while", "count"} => HlLoopLowered

\* the loop of the lace programs `while v {..}` and `while n > 0 {..}`:
\* addresses of its JumpF and of its back-jump, and of its condition
LcLoop ==
    LET code == lc_act[1].code
        guard == CHOOSE a \in 0..(Len(code) - 1) : code[a + 1].op = "JumpF"
        back == CHOOSE a \in 0..(Len(code) - 1) : code[a + 1].op = "Jump"
    IN [first |-> guard - (IF lc_prog.kind = "while" THEN 1 ELSE 3),
        guard |-> guard, back |-> back]

\* C31 on the lace VM: the loops lacec compiles have the same shape; the
\* guard is left for the body with a truthy value on the stack only
C31_LaceWhileLowering ==
    (lc_prog.kind \in {"while", "count"} /\ Len(lc_act) > 0) =>
        /\ lc_act[1].code[LcLoop.guard + 1].addr = LcLoop.back + 1
        /\ lc_act[1].code[LcLoop.back + 1].addr = LcLoop.first
        /\ \A i \in 1..(Len(lc_trace) - 1) :
              /\ lc_trace[i + 1].ip = LcLoop.guard + 1 =>
                    /\ lc_trace[i].ip = LcLoop.guard
                    /\ istruthy(Last(lc_trace[i].stack))
              /\ lc_trace[i].ip = LcLoop.back => lc_trace[i + 1].ip = LcLoop.first
              /\ lc_trace[i + 1].ip = LcLoop.back + 1 =>
                    /\ lc_trace[i].ip = LcLoop.guard
                    /\ ~istruthy(Last(lc_trace[i].stack))

\* every Jump and JumpIf at an address of the span targets an address of the
\* span or the address just after it
JumpsWithin(span) ==
    \A a \in span.first..(span.end - 1) :
        hl_act[1].code[a + 1].op \in {"Jump", "JumpIf"} =>
            /\ span.first <= hl_act[1].code[a + 1].addr
            /\ hl_act[1].code[a + 1].addr <= span.end

LoopSpan == [first |-> HlLoop.first, end |-> HlLoop.end]

\* C32: the jump targets from_hir produces are addresses of the vector it
\* returns: every Jump and JumpIf of a control construct, also of one nested
\* in the body of an if, targets an address within the construct's own span.
C32_JumpTargetsAbsolute ==
    /\ hl_prog.kind = "chain" => JumpsWithin(OuterSpan)
    /\ hl_prog.kind = "if_chain" => JumpsWithin(OuterSpan) /\ JumpsWithin(InnerSpan)
    /\ hl_prog.kind \in {"while", "count"} => JumpsWithin(LoopSpan)
    /\ hl_prog.kind \in {"if_while", "if_count"} =>
            JumpsWithin(OuterSpan) /\ JumpsWithin(LoopSpan)

\* the same for the constructs at top level alone
C32_TopLevelJumpTargets ==
    /\ hl_prog.kind = "chain" => JumpsWithin(OuterSpan)
    /\ hl_prog.kind \in {"if_chain", "if_while", "if_count"} =>
            \A a \in {OuterSpan.first + 2, OuterSpan.end - 1} :
                /\ OuterSpan.first <= hl_act[1].code[a + 1].addr
                /\ hl_act[1].code[a + 1].addr <= OuterSpan.end
    /\ hl_prog.kind \in {"while", "count"} => JumpsWithin(LoopSpan)

\* what JumpF(t) at address ip does to the operand stack and to ip
JumpFLeaves(stack, ip, t) ==
    [stack |-> Front(stack), ip |-> IF ~istruthy(Last(stack)) THEN t ELSE ip + 1]

\* the lace machine runs the hand-written file with the given guard encoding
LcGuards(encoding) == lc_prog.kind = "guard" /\ lc_prog.style = encoding

\* C33: `LogicalNot; JumpT(t)` leaves the operand stack and ip that
\* `JumpF(t)` leaves for the same value on top of the stack: the value is
\* popped, the jump is taken for the same values and the next instruction is
\* reached for the others, and where one encoding panics so does the other.
C33_GuardEncodingsEquivalent ==
    /\ [][(LcGuards("JumpF") /\ LcExecutes("JumpF")) =>
            IF IsPrivate(Last(lc_stack)) THEN lc_status' = "panic"
            ELSE /\ lc_status' = "running"
                 /\ lc_stack' = JumpFLeaves(lc_stack, LcIp, LcInstr.addr).stack
                 /\ LcIp' = JumpFLeaves(lc_stack, LcIp, LcInstr.addr).ip]_vars
    /\ [][(LcGuards("JumpT") /\ LcExecutes("LogicalNot")) =>
            (lc_status' = "panic" <=> IsPrivate(Last(lc_stack)))]_vars
    /\ [][(LcGuards("JumpT") /\ LcExecutes("JumpT")) =>
            LET before == Last(lc_trace).stack
                same == JumpFLeaves(before, LcIp, LcInstr.addr)
            IN /\ lc_status' = "running"
               /\ lc_stack' = same.stack
               /\ LcIp' = same.ip]_vars

\* the falsy value -1 met the guard `LogicalNot; JumpT(6)`: the jump was taken
\* and the value popped, the 5 below it staying on the stack
C33_JumpTakenAfterNot ==
    /\ LcGuards("JumpT")
    /\ lc_prog.a = ValueNumber(-1)
    /\ Len(lc_trace) > 0
    /\ Last(lc_trace).ins.op = "JumpT"
    /\ lc_stack = <<ValueNumber(5)>>
    /\ LcIp = 6

\* a^b for b >= 0 as long as it lies in the 32-bit range; the powers of a
\* grow in size unless a is -1, 0 or 1, so a power out of range stays out
RECURSIVE Power(_, _)
Power(a, b) ==
    IF b = 0 THEN [fits |-> TRUE, val |-> 1]
    ELSE LET p == Power(a, b - 1) IN
         IF ~p.fits THEN p
         ELSE LET exact == Exact("Mul", p.val, a) IN
              IF Representable(exact) THEN [fits |-> TRUE, val |-> ToNumber(exact)]
              ELSE [fits |-> FALSE, val |-> 0]

\* `operate` has been applied with Pow to an Integer and an Integer >= low
PowDone(low) ==
    /\ op_res.kind \notin {"none", "idle"}
    /\ op_code = "Pow"
    /\ op_a.t = "Integer"
    /\ op_b.t = "Integer"
    /\ op_b.v >= low

PowExactOrRaises ==
    LET exact == Power(op_a.v, op_b.v) IN
    IF exact.fits THEN op_res = Gives(VmInteger(exact.val)) ELSE op_res.kind = "raise"

\* C37: Pow of an Integer a and an Integer b >= 0 gives Integer(a^b) when
\* a^b lies in the 32-bit range, a^0 = 1 and a^1 = a among them, and raises
\* the overflow error otherwise.
C37_IntegerPow == PowDone(0) => PowExactOrRaises

\* the same for the exponents from 1 on
C37_IntegerPowPositiveExponent == PowDone(1) => PowExactOrRaises

\* a step of vm::run that executes the opcode op with two operands at hand
RnExecutes(op) ==
    /\ rn_status = "running"
    /\ RnTop.pc < Len(RnFunction.code)
    /\ RnOpcode.op = op
    /\ Len(RnTop.stack) >= 2
    /\ rn_trace' # rn_trace

\* the step took the right operand from the top of the stack and the left
\* one from below it and pushed the one result of `operate`, or the run
\* ended where `operate` gives no result
RnOperated(op) ==
    LET stack == RnTop.stack
        res == operate(stack[Len(stack) - 1], stack[Len(stack)], op)
    IN IF res.kind = "value"
       THEN /\ rn_status' = "running"
            /\ Last(rn_act').stack = Append(DropLast(stack, 2), res.val)
            /\ Len(Last(rn_act').stack) = Len(stack) - 1
       ELSE rn_status' \in {"raise", "panic"}

\* C34: in vm::run each of Add, Sub, Mul, Div, Mod, Pow, Equal, NotEqual,
\* More, Less, MoreOrEqual and LessOrEqual pops the right operand, then the
\* left one, and pushes one result: the operand stack is one shorter after it.
C34_BinaryOpcodesPopTwoPushOne ==
    [][\A op \in BinaryOpCodes : RnExecutes(op) => RnOperated(op)]_vars

\* the same for the opcodes that the arm of vm::run names
C34_OperateArmPopsTwoPushesOne ==
    [][\A op \in RnOperateCodes : RnExecutes(op) => RnOperated(op)]_vars

\* a step in which an activation other than the outermost one finishes and
\* its caller goes on: Return, ReturnNone, or the end of the callee's code
LcCalleeFinishes ==
    /\ lc_status = "running"
    /\ Len(lc_act) >= 2
    /\ lc_trace' # lc_trace
    /\ lc_status' = "running"
    /\ \/ LcIp >= Len(LcCode)
       \/ LcIp < Len(LcCode) /\ LcInstr.op \in {"Return", "ReturnNone"}

\* the first step of the caller after the call made at step i of the trace
Resumption(i) ==
    {j \in (i + 1)..Len(lc_trace) :
        /\ lc_trace[j].lvl = lc_trace[i].lvl
        /\ \A k \in (i + 1)..(j - 1) : lc_trace[k].lvl > lc_trace[i].lvl}

\* C35: while an instruction executes the call-frame stack holds one frame
\* for every activation of run, the global frame at the bottom; CallFunction
\* pushes one frame on top of the frames there are, the end of the callee (by
\* Return, ReturnNone or the end of its code) removes that frame, and the
\* caller goes on with the depth it had just before the call.
C35_CallFrameDiscipline ==
    /\ [](lc_status = "running" => Len(lc_calls) >= 1 /\ Len(lc_calls) = Len(lc_act))
    /\ [][(LcExecutes("CallFunction") /\ lc_status' = "running") =>
            /\ Len(lc_calls') = Len(lc_calls) + 1
            /\ Front(lc_calls') = lc_calls
            /\ Len(lc_act') = Len(lc_act) + 1]_vars
    /\ [][LcCalleeFinishes =>
            /\ lc_calls' = Front(lc_calls)
            /\ Len(lc_act') = Len(lc_act) - 1]_vars
    /\ [](\A i \in 1..Len(lc_trace) :
            lc_trace[i].ins.op = "CallFunction" =>
                \A j \in Resumption(i) :
                    Len(lc_trace[j].frames) = Len(lc_trace[i].frames))

\* calls nested three deep have all returned, each in another way or the
\* same, and the outermost activation goes on over the global frame alone
C35_NestedCallsUnwound ==
    /\ lc_status = "running"
    /\ Len(lc_act) = 1
    /\ Len(lc_calls) = 1
    /\ \E i \in 1..Len(lc_trace) : lc_trace[i].lvl = MaxDepth + 1

\* a CallFunction(len) step that finds the callee and len values on the
\* operand stack and enters the callee
LcCallEnters ==
    /\ LcExecutes("CallFunction")
    /\ Len(lc_stack) >= LcInstr.len + 1
    /\ Len(lc_act') = Len(lc_act) + 1

\* the values on the stack below the first argument of the call are still
\* there after the step and none of them is bound to a parameter
BelowUntouched ==
    LET base == Len(lc_stack) - LcInstr.len - 1
        arguments == {lc_stack[k] : k \in (base + 1)..(Len(lc_stack) - 1)}
        locals == lc_calls'[Len(lc_calls')]
    IN /\ Len(lc_stack') >= base
       /\ SubSeq(lc_stack', 1, base) = SubSeq(lc_stack, 1, base)
       /\ \A name \in DOMAIN locals : locals[name] \in arguments

\* C36: CallFunction(len) takes from the operand stack the callee value and
\* the len argument values of the call only: what was on the stack before
\* the first argument was pushed is neither popped nor bound to a parameter,
\* whatever the number of parameters of the callee.
C36_CallTakesItsArgumentsOnly == [][LcCallEnters => BelowUntouched]_vars

\* the same for the calls of a callee with at most len parameters
C36_CallWithEnoughArguments ==
    [][(LcCallEnters /\ Len(Last(lc_stack).v.parameters) <= LcInstr.len) =>
            BelowUntouched]_vars

====
